---- MODULE Spec2Model ----
(***************************************************************************)
(* Line-crossing pipeline of cam-ai: the centroid tracker                  *)
(* (line-crossing-service/body_tracker.py), the tripwire loop of           *)
(* LineCrossingDetector.run with its per-camera cooldown                    *)
(* (line-crossing-service/line_detector.py) and the process-wide cooldown  *)
(* gate of the attendance service (attendance-service/main.py).            *)
(*                                                                         *)
(* Units.  Normalised coordinates (0..1) are integers in thousandths.      *)
(* A centroid ((x1+x2)/2, (y1+y2)/2) is kept doubled (x1+x2, y1+y2), so    *)
(* a squared distance of two kept centroids is 4*d^2 and is compared with  *)
(* 4*max_distance^2.  A side value s = dx*(py-ly1) - dy*(px-lx1) is kept   *)
(* doubled as well (the check point has a halved coordinate), in units of  *)
(* 1e-6, and is compared with 2*CROSS_THRESHOLD.  All arithmetic is exact: *)
(* the code's comparisons are taken on the side value and the distance as  *)
(* numbers, and the rounding of the binary floating-point evaluation that  *)
(* produces them is not modelled.                                          *)
(***************************************************************************)
EXTENDS Integers, Sequences, FiniteSets, TLC

VARIABLES
    \* ---- CentroidTracker (body_tracker.py)
    next_id,          \* self.next_id
    objects,          \* self.objects: id -> centroid (doubled)
    prev_objects,     \* self.prev_objects: id -> previous centroid (doubled)
    bboxes,           \* self.bboxes: id -> (x1, y1, x2, y2)
    disappeared,      \* self.disappeared: id -> consecutive misses
    max_disappeared,  \* constructor argument
    max_distance,     \* constructor argument (thousandths)
    results,          \* value returned by the last update(): sequence of entries
    detections,       \* argument of the last update()
    calls,            \* number of update() calls so far
    streak,           \* history: id -> consecutive update() calls without a returned entry
    \* ---- LineCrossingDetector (line_detector.py)
    tripwire,             \* self.tripwire (immutable configuration)
    track_initial_side,   \* self._track_initial_side: id -> side value (doubled)
    crossings_detected,   \* self.crossings_detected
    faces_recognized,     \* self.faces_recognized
    cooldowns,            \* self._cooldowns: employee -> mark time (camera fixed)
    recognized_cache,     \* self._recognized_cache: id -> [name, ts]
    clock,                \* time.time()
    frame_pre,            \* history: the initial-side map the last frame started from
    frame_purged,         \* history: ids the last frame deleted from the map as stale
    frame_s,              \* history: side value of every track returned in the last frame
    frame_fired,          \* history: ids whose crossing fired in the last frame, in order
    frame_events,         \* history: recognised crossings of the last frame
    run_hist,             \* history: id -> current monotone pass (s, fired) per frame
    not_returned,         \* history: ids that fired and were not seen back on the origin side
    last_report,          \* history: employee -> clock of its last reported attendance
    \* ---- FrameGrabber (frame_grabber.py) and the loop head of LineCrossingDetector.run
    f_frame,              \* grabber._frame: 0 = None, n = the n-th frame read
    f_stop,               \* grabber._stop_event is set
    f_pc,                 \* grabber thread: "head" | "read" | "store" | "done"
    f_cap,                \* cap is not None and cap.isOpened()
    f_retry,              \* retry_count
    f_local,              \* the frame cap.read() returned last
    f_captured,           \* frames read so far
    d_pc,                 \* detector loop: "head" | "got" | "leave" | "done"
    d_stop,               \* detector._stop_event is set
    d_frame,              \* the loop's local frame
    d_received,           \* history: the frames the loop got, in order
    \* ---- attendance-service gate (main.py)
    g_cooldowns,          \* _cooldowns: <<subject, camera>> -> mark time
    g_recent,             \* _recent_events: the reported events, oldest first
    g_pc,                 \* per camera thread: "idle" | "read" | "store"
    g_call,               \* per camera thread: the call's kind, subject and value of now
    g_clock,              \* time.time()
    g_count,              \* calls started so far
    g_last,               \* history: the last completed locked section
    g_last_cam,           \* history: subject -> camera of its last reported event
    g_reported_at,        \* history: <<subject, camera>> -> now of the last reported event
    \* ---- HardwareZoomManager (attendance-service/auto_zoom.py); times in tenths of a second
    z_state,                 \* self._state: "idle" | "zooming_in" | "tracking" | ...
    z_last_face_time,        \* self._last_face_time
    z_persist_start,         \* self._persist_start (0 = not running)
    z_is_moving,             \* self._is_moving
    z_move_direction,        \* self._move_direction: "in" | "out" | ""
    z_zoom_start_time,       \* self._zoom_start_time
    z_last_cmd_time,         \* self._last_cmd_time
    z_current_speed,         \* self._current_speed
    z_zoom_stopped_time,     \* self._zoom_stopped_time
    z_zoom_start_face_size,  \* self._zoom_start_face_size
    z_zoom_plateau_count,    \* self._zoom_plateau_count
    z_connected,             \* self._connected
    z_clock,                 \* time.time()
    z_calls,                 \* start(), update() and reset() calls so far
    z_op,                    \* history: the last call: "none" | "update" | "start" | "reset"
    z_pre,                   \* history: the manager's fields before the last call
    z_faces,                 \* history: face heights passed to the last update()
    z_cmds,                  \* history: PTZ commands sent by the last call, in order
    z_status,                \* history: what the last update() returned
    z_cycle,                 \* history: the zoom-in cycles so far, see NextCycle
    z_speed_in,              \* two face heights given to _calc_zoom_in_speed
    z_speed_out,             \* the two speeds it returned (0 = not called)
    \* ---- the manager's lock and the threads that call the manager
    l_lock,                  \* self._lock: "free", or the thread that holds it
    l_pc,                    \* thread -> its position inside update(), start() or reset()
    l_call,                  \* now and face heights of the update() in progress
    l_unlocked,              \* history: session fields written by a thread without the lock
    l_locked_cmds            \* history: PTZ requests sent by a thread holding the lock

trackerVars == <<next_id, objects, prev_objects, bboxes, disappeared,
                 max_disappeared, max_distance, results, detections, calls, streak>>
grabVars == <<f_frame, f_stop, f_pc, f_cap, f_retry, f_local, f_captured, d_pc, d_stop,
              d_frame, d_received>>
detectorVars == <<tripwire, track_initial_side, crossings_detected, faces_recognized,
                  cooldowns, recognized_cache, clock, frame_pre, frame_purged, frame_s,
                  frame_fired, frame_events, run_hist, not_returned, last_report,
                  grabVars>>
gateVars == <<g_cooldowns, g_recent, g_pc, g_call, g_clock, g_count, g_last, g_last_cam,
              g_reported_at>>
lockVars == <<l_lock, l_pc, l_call, l_unlocked, l_locked_cmds>>
zoomVars == <<z_state, z_last_face_time, z_persist_start, z_is_moving, z_move_direction,
              z_zoom_start_time, z_last_cmd_time, z_current_speed, z_zoom_stopped_time,
              z_zoom_start_face_size, z_zoom_plateau_count, z_connected, z_clock, z_calls,
              z_op, z_pre, z_faces, z_cmds, z_status, z_cycle, z_speed_in, z_speed_out,
              lockVars>>
vars == <<trackerVars, detectorVars, gateVars, zoomVars>>

\* ------------------------------------------------------------------ helpers

Abs(x) == IF x < 0 THEN -x ELSE x

EmptyMap == [x \in {} |-> 0]

Range(seq) == {seq[i] : i \in 1..Len(seq)}

\* m with key k removed
Without(m, k) == [x \in DOMAIN m \ {k} |-> m[x]]

\* m with key k set to v (dict assignment)
Put(m, k, v) == [x \in DOMAIN m \cup {k} |-> IF x = k THEN v ELSE m[x]]

\* ------------------------------------------------------------------ tracker

\* centroid of a box, doubled: [(d[0] + d[2]) / 2, (d[1] + d[3]) / 2]
Centroid2(d) == <<d[1] + d[3], d[2] + d[4]>>

\* squared Euclidean distance of two doubled centroids (= 4 * cdist^2)
Dist2(a, b) == (a[1] - b[1]) * (a[1] - b[1]) + (a[2] - b[2]) * (a[2] - b[2])

\* the comparison turned round
TooFarInverted(d2, maxd) == d2 < 4 * maxd * maxd

\* D[row, col] > self.max_distance
TooFar(d2, maxd) == d2 > 4 * maxd * maxd

\* deregistering one call early
ExpiredEarly(count, maxdis) == count >= maxdis

\* self.disappeared[obj_id] > self.max_disappeared
Expired(count, maxdis) == count > maxdis

\* The tracker as one record.
TrackerState == [next_id |-> next_id, objects |-> objects, prev_objects |-> prev_objects,
                 bboxes |-> bboxes, disappeared |-> disappeared]

\* _register(centroid, bbox)
Register(T, centroid, bbox) ==
    [next_id      |-> T.next_id + 1,
     objects      |-> Put(T.objects, T.next_id, centroid),
     prev_objects |-> Put(T.prev_objects, T.next_id, centroid),
     bboxes       |-> Put(T.bboxes, T.next_id, bbox),
     disappeared  |-> Put(T.disappeared, T.next_id, 0)]

\* a tracker that hands the id of the newest track out again once it is gone
DeregisterReleasing(T, id) ==
    [next_id      |-> IF id = T.next_id - 1 THEN id ELSE T.next_id,
     objects      |-> [k \in DOMAIN T.objects \ {id} |-> T.objects[k]],
     prev_objects |-> [k \in DOMAIN T.prev_objects \ {id} |-> T.prev_objects[k]],
     bboxes       |-> [k \in DOMAIN T.bboxes \ {id} |-> T.bboxes[k]],
     disappeared  |-> [k \in DOMAIN T.disappeared \ {id} |-> T.disappeared[k]]]

\* _deregister(obj_id)
Deregister(T, id) ==
    [next_id      |-> T.next_id,
     objects      |-> Without(T.objects, id),
     prev_objects |-> Without(T.prev_objects, id),
     bboxes       |-> Without(T.bboxes, id),
     disappeared  |-> Without(T.disappeared, id)]

\* self.disappeared[obj_id] += 1, then deregister when above max_disappeared
Miss(T, id, maxdis) ==
    LET T1 == [T EXCEPT !.disappeared[id] = @ + 1]
    IN  IF Expired(T1.disappeared[id], maxdis) THEN Deregister(T1, id) ELSE T1

\* the keys of an OrderedDict filled by _register: insertion order = ascending id
RECURSIVE SortedIds(_)
SortedIds(S) ==
    IF S = {} THEN <<>>
    ELSE LET m == CHOOSE x \in S : \A y \in S : x <= y
         IN  <<m>> \o SortedIds(S \ {m})

\* for obj_id in ...: Miss, over a sequence of ids
RECURSIVE MissAll(_, _, _)
MissAll(T, ids, maxdis) ==
    IF ids = <<>> THEN T
    ELSE MissAll(Miss(T, Head(ids), maxdis), Tail(ids), maxdis)

\* for i, centroid in enumerate(new_centroids): self._register(...)
RECURSIVE RegisterAll(_, _)
RegisterAll(T, dets) ==
    IF dets = <<>> THEN T
    ELSE RegisterAll(Register(T, Centroid2(Head(dets)), Head(dets)), Tail(dets))

\* ---- matching branch of update()

\* D.min(axis=1)[row], for the track centroid c0 against the detections
RowMin(c0, dets) ==
    LET ds == {Dist2(c0, Centroid2(dets[c])) : c \in 1..Len(dets)}
    IN  CHOOSE m \in ds : \A d \in ds : m <= d

\* D.argmin(axis=1)[row]: the first column holding the row's minimum
ArgMinCol(c0, dets) ==
    LET m == RowMin(c0, dets)
    IN  CHOOSE c \in 1..Len(dets) :
            /\ Dist2(c0, Centroid2(dets[c])) = m
            /\ \A c2 \in 1..(c - 1) : Dist2(c0, Centroid2(dets[c2])) # m

\* rows = D.min(axis=1).argsort(): every order of the rows (indices into ids) that is
\* ascending in the row minimum; argsort's default sort is not stable, so rows with
\* equal minima may come in either order.
RECURSIVE RowOrders(_, _, _, _)
RowOrders(S, ids, objs0, dets) ==
    IF S = {} THEN {<<>>}
    ELSE LET least == {r \in S : \A q \in S :
                          RowMin(objs0[ids[r]], dets) <= RowMin(objs0[ids[q]], dets)}
         IN  UNION {{<<r>> \o rest : rest \in RowOrders(S \ {r}, ids, objs0, dets)}
                    : r \in least}

\* an iteration that does not look at used_cols: a detection may serve two tracks
MatchStepSharingColumns(acc, row, ids, objs0, dets, maxd) ==
    LET col == ArgMinCol(objs0[ids[row]], dets)
        id  == ids[row]
        T   == acc.T
    IN  IF row \in acc.used_rows THEN acc
        ELSE IF TooFar(Dist2(objs0[id], Centroid2(dets[col])), maxd) THEN acc
        ELSE [T |-> [T EXCEPT !.prev_objects = Put(@, id, T.objects[id]),
                              !.objects[id] = Centroid2(dets[col]),
                              !.bboxes = Put(@, id, dets[col]),
                              !.disappeared[id] = 0],
              used_rows |-> acc.used_rows \cup {row},
              used_cols |-> acc.used_cols \cup {col},
              results |-> Append(acc.results,
                                 [id |-> id,
                                  centroid |-> Centroid2(dets[col]),
                                  prev_centroid |-> T.objects[id],
                                  bbox |-> dets[col]])]

\* one iteration of `for row, col in zip(rows, cols)`
MatchStep(acc, row, ids, objs0, dets, maxd) ==
    LET col == ArgMinCol(objs0[ids[row]], dets)
        id  == ids[row]
        T   == acc.T
    IN  IF row \in acc.used_rows \/ col \in acc.used_cols THEN acc
        ELSE IF TooFar(Dist2(objs0[id], Centroid2(dets[col])), maxd) THEN acc
        ELSE [T |-> [T EXCEPT !.prev_objects = Put(@, id, T.objects[id]),
                              !.objects[id] = Centroid2(dets[col]),
                              !.bboxes = Put(@, id, dets[col]),
                              !.disappeared[id] = 0],
              used_rows |-> acc.used_rows \cup {row},
              used_cols |-> acc.used_cols \cup {col},
              results |-> Append(acc.results,
                                 [id |-> id,
                                  centroid |-> Centroid2(dets[col]),
                                  prev_centroid |-> T.objects[id],
                                  bbox |-> dets[col]])]

RECURSIVE MatchLoop(_, _, _, _, _, _)
MatchLoop(acc, order, ids, objs0, dets, maxd) ==
    IF order = <<>> THEN acc
    ELSE MatchLoop(MatchStep(acc, Head(order), ids, objs0, dets, maxd),
                   Tail(order), ids, objs0, dets, maxd)

\* the subsequence of seq whose elements satisfy membership in S
RECURSIVE Keep(_, _)
Keep(seq, S) ==
    IF seq = <<>> THEN <<>>
    ELSE IF Head(seq) \in S THEN <<Head(seq)>> \o Keep(Tail(seq), S)
    ELSE Keep(Tail(seq), S)

\* The row orders update() may take on tracker T with these detections.
UpdateOrders(T, dets) ==
    IF Len(dets) = 0 \/ DOMAIN T.objects = {} THEN {<<>>}
    ELSE LET ids == SortedIds(DOMAIN T.objects)
         IN  RowOrders(1..Len(ids), ids, T.objects, dets)

\* update(), `if len(detections) == 0` branch
UpdateNoDetections(T, maxdis) ==
    [T |-> MissAll(T, SortedIds(DOMAIN T.disappeared), maxdis), results |-> <<>>]

\* a tracker that also returns the tracks it has just registered
UpdateEmptyTrackerReturning(T, dets) ==
    [T |-> RegisterAll(T, dets),
     results |-> [i \in 1..Len(dets) |->
                    [id |-> T.next_id + i - 1, centroid |-> Centroid2(dets[i]),
                     prev_centroid |-> Centroid2(dets[i]), bbox |-> dets[i]]]]

\* update(), `if len(self.objects) == 0` branch
UpdateEmptyTracker(T, dets) ==
    [T |-> RegisterAll(T, dets), results |-> <<>>]

\* update(), matching branch, taking the row order `order`
UpdateMatch(T, dets, order, maxdis, maxd) ==
    LET ids  == SortedIds(DOMAIN T.objects)
        acc  == MatchLoop([T |-> T, used_rows |-> {}, used_cols |-> {},
                           results |-> <<>>],
                          order, ids, T.objects, dets, maxd)
        \* for row in range(len(obj_ids)): if row not in used_rows
        T2   == MissAll(acc.T,
                        Keep(ids, {ids[r] : r \in (1..Len(ids)) \ acc.used_rows}),
                        maxdis)
        \* for col in range(len(new_centroids)): if col not in used_cols
        cols == Keep([i \in 1..Len(dets) |-> i], (1..Len(dets)) \ acc.used_cols)
        T3   == RegisterAll(T2, [i \in 1..Len(cols) |-> dets[cols[i]]])
    IN  [T |-> T3, results |-> acc.results]

\* CentroidTracker.update(detections), taking the row order `order`:
\* [T |-> the tracker afterwards, results |-> the returned mapping, in insertion order]
Update(T, dets, order, maxdis, maxd) ==
    IF Len(dets) = 0 THEN UpdateNoDetections(T, maxdis)
    ELSE IF DOMAIN T.objects = {} THEN UpdateEmptyTracker(T, dets)
    ELSE UpdateMatch(T, dets, order, maxdis, maxd)

\* the ids of a returned mapping
ResultIds(res) == {res[i].id : i \in 1..Len(res)}

\* history: consecutive update() calls in which a once-registered id got no returned
\* entry, counted from the call after its registration; frozen once the id is gone
NextStreak(old, T0, T1, res) ==
    [id \in 0..(T1.next_id - 1) |->
        IF id \notin DOMAIN old THEN 0
        ELSE IF id \notin DOMAIN T0.objects THEN old[id]
        ELSE IF id \in ResultIds(res) THEN 0
        ELSE old[id] + 1]

\* ------------------------------------------------------------------ crossing engine

\* self._CROSS_THRESHOLD = 0.005, in units of 1e-6
CROSS_THRESHOLD == 5000

\* COOLDOWN_SECONDS of line_detector.py
COOLDOWN_SECONDS == 120

\* self._RECOGNITION_DISPLAY_SECONDS
RECOGNITION_DISPLAY_SECONDS == 5

\* the check point of a box, doubled: the leading edge at mid height for a vertical
\* line (left edge for forward, right edge otherwise), else bottom centre
CheckPoint2(tw, bbox) ==
    IF tw.lineType = "vertical"
    THEN IF tw.crossDirection = "forward"
         THEN <<2 * bbox[1], bbox[2] + bbox[4]>>
         ELSE <<2 * bbox[3], bbox[2] + bbox[4]>>
    ELSE <<bbox[1] + bbox[3], 2 * bbox[4]>>

\* s_curr = dx_line * (check_curr[1] - ly1) - dy_line * (check_curr[0] - lx1), doubled
SideValue2(tw, cp2) ==
    (tw.x2 - tw.x1) * (cp2[2] - 2 * tw.y1) - (tw.y2 - tw.y1) * (cp2[1] - 2 * tw.x1)

\* the side value of a box
SideOf(tw, bbox) == SideValue2(tw, CheckPoint2(tw, bbox))

\* a side established already at the threshold
EstablishesAtThreshold(s2) == Abs(s2) >= 2 * CROSS_THRESHOLD

\* abs(s_curr) > self._CROSS_THRESHOLD
Establishes(s2) == Abs(s2) > 2 * CROSS_THRESHOLD

\* (s_init > 0 and s_curr > 0) or (s_init < 0 and s_curr < 0)
SameSide(si, sc) == (si > 0 /\ sc > 0) \/ (si < 0 /\ sc < 0)

\* no jitter band
TooCloseNever(sc) == FALSE

\* abs(s_curr) < self._CROSS_THRESHOLD
TooClose(sc) == Abs(sc) < 2 * CROSS_THRESHOLD

\* any flip counts as a crossing
CrossedAnyDirection(dir, si, sc) == (si < 0 /\ sc > 0) \/ (si > 0 /\ sc < 0)

\* crossed = ..., by the configured direction
Crossed(dir, si, sc) ==
    IF dir = "backward" THEN si < 0 /\ sc > 0 ELSE si > 0 /\ sc < 0

\* a gate that never closes
CheckCooldownAlways(cd, emp, now) == TRUE

\* _check_cooldown: now - last >= COOLDOWN_SECONDS, last = self._cooldowns.get(key, 0)
CheckCooldown(cd, emp, now) ==
    now - (IF emp \in DOMAIN cd THEN cd[emp] ELSE 0) >= COOLDOWN_SECONDS

\* a crossing that leaves the initial-side entry in place
SideStepKeepsEntry(side, id, sc, dir) ==
    IF id \notin DOMAIN side
    THEN [side |-> IF Establishes(sc) THEN Put(side, id, sc) ELSE side, fired |-> FALSE]
    ELSE IF SameSide(side[id], sc) THEN [side |-> side, fired |-> FALSE]
    ELSE IF TooClose(sc) THEN [side |-> side, fired |-> FALSE]
    ELSE IF ~Crossed(dir, side[id], sc)
    THEN [side |-> Put(side, id, sc), fired |-> FALSE]
    ELSE [side |-> side, fired |-> TRUE]

\* the initial-side map after one returned track was examined, and what it did:
\* [side, fired]
SideStep(side, id, sc, dir) ==
    IF id \notin DOMAIN side
    THEN [side |-> IF Establishes(sc) THEN Put(side, id, sc) ELSE side, fired |-> FALSE]
    ELSE IF SameSide(side[id], sc) THEN [side |-> side, fired |-> FALSE]
    ELSE IF TooClose(sc) THEN [side |-> side, fired |-> FALSE]
    ELSE IF ~Crossed(dir, side[id], sc)
    THEN [side |-> Put(side, id, sc), fired |-> FALSE]
    ELSE [side |-> Without(side, id), fired |-> TRUE]

\* a loop that counts a crossing only when a face was recognised
CrossingStepSkippingUnknown(D, id, rec, lag) ==
    LET D1 == [D EXCEPT !.crossings = IF rec = "none" THEN @ ELSE @ + 1,
                        !.cache = Put(@, id, [name |-> rec, ts |-> D.clock])]
    IN  IF rec = "none" THEN D1
        ELSE IF CheckCooldown(D.cooldowns, rec, D.clock)
        THEN [D1 EXCEPT !.faces = @ + 1,
                        !.cooldowns = Put(@, rec, D.clock + lag),
                        !.clock = @ + lag,
                        !.events = Append(@, [id |-> id, emp |-> rec, at |-> D.clock,
                                              reported |-> TRUE, mark |-> D.clock + lag])]
        ELSE [D1 EXCEPT !.events = Append(@, [id |-> id, emp |-> rec, at |-> D.clock,
                                              reported |-> FALSE, mark |-> D.clock])]

\* what follows a fired crossing: the counter, face recognition (outcome rec, "none"
\* when recognize_in_region returns None), the recognition cache, the cooldown check
\* and _report_attendance (whose _set_cooldown reads the clock lag seconds later)
CrossingStep(D, id, rec, lag) ==
    LET D1 == [D EXCEPT !.crossings = @ + 1,
                        !.cache = Put(@, id, [name |-> rec, ts |-> D.clock])]
    IN  IF rec = "none" THEN D1
        ELSE IF CheckCooldown(D.cooldowns, rec, D.clock)
        THEN [D1 EXCEPT !.faces = @ + 1,
                        !.cooldowns = Put(@, rec, D.clock + lag),
                        !.clock = @ + lag,
                        !.events = Append(@, [id |-> id, emp |-> rec, at |-> D.clock,
                                              reported |-> TRUE, mark |-> D.clock + lag])]
        ELSE [D1 EXCEPT !.events = Append(@, [id |-> id, emp |-> rec, at |-> D.clock,
                                              reported |-> FALSE, mark |-> D.clock])]

\* one iteration of `for track_id, info in tracked.items()`
TrackStep(D, r, tw, rec, lag) ==
    LET sc == SideOf(tw, r.bbox)
        \* if cached and (now - cached["ts"]) > self._RECOGNITION_DISPLAY_SECONDS
        D0 == IF /\ r.id \in DOMAIN D.cache
                 /\ D.clock - D.cache[r.id].ts > RECOGNITION_DISPLAY_SECONDS
              THEN [D EXCEPT !.cache = Without(@, r.id)]
              ELSE D
        st == SideStep(D0.side, r.id, sc, tw.crossDirection)
        D1 == [D0 EXCEPT !.side = st.side, !.seen = Put(@, r.id, sc)]
    IN  IF st.fired
        THEN CrossingStep([D1 EXCEPT !.fired = Append(@, r.id)], r.id, rec[r.id], lag)
        ELSE D1

RECURSIVE TrackLoop(_, _, _, _, _)
TrackLoop(D, res, tw, rec, lag) ==
    IF res = <<>> THEN D
    ELSE TrackLoop(TrackStep(D, Head(res), tw, rec, lag), Tail(res), tw, rec, lag)

\* a loop iteration that leaves the initial-side map as it finds it
LoopStartKeeping(live, now) ==
    [side      |-> track_initial_side,
     crossings |-> crossings_detected,
     faces     |-> faces_recognized,
     cooldowns |-> cooldowns,
     cache     |-> recognized_cache,
     clock     |-> now,
     seen      |-> EmptyMap,
     fired     |-> <<>>,
     events    |-> <<>>]

\* the detector as one record, at the start of a loop iteration at time now, after
\* the tracker update left the live ids `live`: stale ids are purged from the
\* initial-side map
LoopStart(live, now) ==
    [side      |-> [id \in DOMAIN track_initial_side \cap live |-> track_initial_side[id]],
     crossings |-> crossings_detected,
     faces     |-> faces_recognized,
     cooldowns |-> cooldowns,
     cache     |-> recognized_cache,
     clock     |-> now,
     seen      |-> EmptyMap,
     fired     |-> <<>>,
     events    |-> <<>>]

\* steps 3 and 4 of one loop iteration
ProcessTracks(live, res, tw, now, rec, lag) ==
    TrackLoop(LoopStart(live, now), res, tw, rec, lag)

\* the ids whose crossing fires in this iteration (no recognition outcome changes them)
FiredIds(live, res, tw, now) ==
    Range(ProcessTracks(live, res, tw, now, [id \in ResultIds(res) |-> "none"], 0).fired)

\* history: the current pass of each live track: its (s, fired) of the latest frames
\* in which it was returned without a gap and with s never increasing
NextRunHist(old, live, D) ==
    [id \in live |->
        IF id \notin DOMAIN D.seen THEN <<>>
        ELSE LET e == [s |-> D.seen[id], fired |-> id \in Range(D.fired)]
             IN  IF id \in DOMAIN old /\ old[id] # <<>> /\ e.s <= old[id][Len(old[id])].s
                 THEN Append(old[id], e)
                 ELSE <<e>>]

\* s is on the side a crossing in direction dir starts from, at or beyond the threshold
OnOriginSide(dir, sc) ==
    IF dir = "backward" THEN sc <= -(2 * CROSS_THRESHOLD) ELSE sc >= 2 * CROSS_THRESHOLD

\* history: the live ids that have fired and were not seen back on the origin side since
NextNotReturned(old, live, D, dir) ==
    {id \in live :
        \/ id \in Range(D.fired)
        \/ /\ id \in old
           /\ ~(id \in DOMAIN D.seen /\ OnOriginSide(dir, D.seen[id]))}

\* history: the clock of each employee's last reported attendance, after the recognised
\* crossings evs of a frame
RECURSIVE NextLastReport(_, _)
NextLastReport(old, evs) ==
    IF evs = <<>> THEN old
    ELSE NextLastReport(IF Head(evs).reported THEN Put(old, Head(evs).emp, Head(evs).mark)
                        ELSE old,
                        Tail(evs))

\* ------------------------------------------------------------------ inputs

\* most update() calls explored
MaxCalls == 4

\* time.time() when a service starts (any epoch time >= the cooldown window)
StartTime == 1000

\* largest max_disappeared a tracker of the tracker specification is built with
MaxDisappearedArg == 1

\* CentroidTracker.__init__ default max_distance = 0.15
DEFAULT_MAX_DISTANCE == 150

\* CentroidTracker(max_disappeared=30, max_distance=0.35) of LineCrossingDetector
DETECTOR_MAX_DISAPPEARED == 30
DETECTOR_MAX_DISTANCE == 350

\* Detections of the tracker specification: 100 x 100 boxes whose centroids are 60, 80,
\* 108 and 140 thousandths apart (below the default max_distance) or 184 and 243
\* (above it); none exactly at it, where the code's floating point decides.
TrackerBoxes == {<<0, 0, 100, 100>>, <<60, 0, 160, 100>>, <<140, 0, 240, 100>>,
                 <<240, 40, 340, 140>>}

\* the frames of the tracker specification: no detection, one, or two (left to right,
\* one pair right to left, and one box twice)
TrackerInputs ==
    {<<>>} \cup {<<a>> : a \in TrackerBoxes}
           \cup {p \in TrackerBoxes \X TrackerBoxes : p[1][1] < p[2][1]}
           \cup {<<<<140, 0, 240, 100>>, <<0, 0, 100, 100>>>>,
                 <<<<60, 0, 160, 100>>, <<60, 0, 160, 100>>>>}

\* ------------------------------------------------------------------ construction

\* CentroidTracker.__init__
TrackerInit(maxdis, maxd) ==
    /\ next_id = 0
    /\ objects = EmptyMap
    /\ prev_objects = EmptyMap
    /\ bboxes = EmptyMap
    /\ disappeared = EmptyMap
    /\ max_disappeared = maxdis
    /\ max_distance = maxd
    /\ results = <<>>
    /\ detections = <<>>
    /\ calls = 0
    /\ streak = EmptyMap

\* LineCrossingDetector.__init__ (the fields the loop uses)
DetectorInit(tw) ==
    /\ tripwire = tw
    /\ track_initial_side = EmptyMap
    /\ crossings_detected = 0
    /\ faces_recognized = 0
    /\ cooldowns = EmptyMap
    /\ recognized_cache = EmptyMap
    /\ frame_pre = EmptyMap
    /\ frame_purged = {}
    /\ frame_s = EmptyMap
    /\ frame_fired = <<>>
    /\ frame_events = <<>>
    /\ run_hist = EmptyMap
    /\ not_returned = {}
    /\ last_report = EmptyMap
    /\ f_frame = 0
    /\ f_stop = FALSE
    /\ f_pc = "head"
    /\ f_cap = FALSE
    /\ f_retry = 0
    /\ f_local = 0
    /\ f_captured = 0
    /\ d_pc = "head"
    /\ d_stop = FALSE
    /\ d_frame = 0
    /\ d_received = <<>>

\* the camera threads of the attendance service
Cameras == {"A", "B"}

\* attendance-service module state
GateInit ==
    /\ g_cooldowns = EmptyMap
    /\ g_recent = <<>>
    /\ g_pc = [c \in Cameras |-> "idle"]
    /\ g_call = [c \in Cameras |-> [kind |-> "none"]]
    /\ g_count = 0
    /\ g_last = [kind |-> "none"]
    /\ g_last_cam = EmptyMap
    /\ g_reported_at = EmptyMap

\* ------------------------------------------------------------------ zoom manager
\* HardwareZoomManager of attendance-service/auto_zoom.py.  A face is its height in
\* pixels (bottom - top); the face positions update() computes are used by no rule.
\* Times are tenths of a second.  _last_face_sizes and _last_error are written and
\* never read by the manager, and are left out.

\* FACE_SMALL_PX, FACE_TARGET_PX, FACE_LARGE_PX
FACE_SMALL_PX == 80
FACE_TARGET_PX == 80
FACE_LARGE_PX == 180

\* PERSIST_SECONDS = 1.0, NO_FACE_TIMEOUT = 5.0, MAX_ZOOM_IN_TIME = 12.0,
\* MAX_RETURN_TIME = 15.0, SPEED_UPDATE_INTERVAL = 1.5
PERSIST_SECONDS == 10
NO_FACE_TIMEOUT == 50
MAX_ZOOM_IN_TIME == 120
MAX_RETURN_TIME == 150
SPEED_UPDATE_INTERVAL == 15

\* the 8.0 of _zooming_out_logic, the sleep(5) of start() and the sleep(3) of reset()
ZOOM_OUT_TIMEOUT == 80
START_SLEEP == 50
RESET_SLEEP == 30

\* min(face_sizes), max(face_sizes) of a non-empty list
SeqMin(seq) == CHOOSE x \in Range(seq) : \A y \in Range(seq) : x <= y
SeqMax(seq) == CHOOSE x \in Range(seq) : \A y \in Range(seq) : x >= y

\* a speed table that is faster for nearer faces
CalcZoomInSpeedInverted(face_px) ==
    IF face_px < 30 THEN 1
    ELSE IF face_px < 50 THEN 3
    ELSE IF face_px < 80 THEN 4
    ELSE IF face_px < 100 THEN 5
    ELSE IF face_px < FACE_SMALL_PX THEN 6
    ELSE 7

\* _calc_zoom_in_speed(face_px)
CalcZoomInSpeed(face_px) ==
    IF face_px < 30 THEN 7
    ELSE IF face_px < 50 THEN 6
    ELSE IF face_px < 80 THEN 5
    ELSE IF face_px < 100 THEN 4
    ELSE IF face_px < FACE_SMALL_PX THEN 3
    ELSE 1

\* The manager's fields as one record.
ZoomState ==
    [state |-> z_state, last_face_time |-> z_last_face_time,
     persist_start |-> z_persist_start, is_moving |-> z_is_moving,
     move_direction |-> z_move_direction, zoom_start_time |-> z_zoom_start_time,
     last_cmd_time |-> z_last_cmd_time, current_speed |-> z_current_speed,
     zoom_stopped_time |-> z_zoom_stopped_time,
     zoom_start_face_size |-> z_zoom_start_face_size,
     zoom_plateau_count |-> z_zoom_plateau_count, connected |-> z_connected]

\* A call in progress: the fields, the commands sent so far (cmds), what the camera
\* will answer to the next commands (outs: "ok" = HTTP 200, "http" = another status,
\* "error" = the request raised), the value of the last _ptz_cmd (ok) and whether an
\* exception is propagating (raised).
ZoomCall(M, outs) ==
    [state |-> M.state, last_face_time |-> M.last_face_time,
     persist_start |-> M.persist_start, is_moving |-> M.is_moving,
     move_direction |-> M.move_direction, zoom_start_time |-> M.zoom_start_time,
     last_cmd_time |-> M.last_cmd_time, current_speed |-> M.current_speed,
     zoom_stopped_time |-> M.zoom_stopped_time,
     zoom_start_face_size |-> M.zoom_start_face_size,
     zoom_plateau_count |-> M.zoom_plateau_count, connected |-> M.connected,
     cmds |-> <<>>, outs |-> outs, ok |-> FALSE, raised |-> FALSE]

\* the request of a command: Param1 = 1 and Param2 = speed to start, 0 and 0 to stop
PtzRequest(action, start, speed, outcome) ==
    [action |-> action, start |-> start, speed |-> IF start THEN speed ELSE 0,
     outcome |-> outcome]

\* a _ptz_cmd without its except clause: a network error leaves the call
PtzCmdRaising(C, action, start, speed) ==
    [C EXCEPT !.cmds = Append(@, PtzRequest(action, start, speed, Head(C.outs))),
              !.outs = Tail(@),
              !.ok = (Head(C.outs) = "ok"),
              !.connected = IF Head(C.outs) = "ok" THEN TRUE ELSE @,
              !.raised = (Head(C.outs) = "error")]

\* _ptz_cmd(action, start, speed): True on HTTP 200, False on another status and on a
\* raised error, which it catches
PtzCmd(C, action, start, speed) ==
    [C EXCEPT !.cmds = Append(@, PtzRequest(action, start, speed, Head(C.outs))),
              !.outs = Tail(@),
              !.ok = (Head(C.outs) = "ok"),
              !.connected = IF Head(C.outs) = "ok" THEN TRUE
                            ELSE IF Head(C.outs) = "error" THEN FALSE ELSE @]

\* a statement after a call that may have raised: skipped while an exception propagates
Then(C, D) == IF C.raised THEN C ELSE D

\* _start_zoom_in(speed); time.time() is taken as the now of the running call
StartZoomIn(C, speed, now) ==
    IF C.raised THEN C
    ELSE LET D == PtzCmd(C, "ZoomIn", TRUE, speed)
         IN  IF D.raised \/ ~D.ok THEN D
             ELSE [D EXCEPT !.is_moving = TRUE, !.move_direction = "in",
                            !.current_speed = speed, !.last_cmd_time = now]

\* _start_zoom_out(speed)
StartZoomOut(C, speed, now) ==
    IF C.raised THEN C
    ELSE LET D == PtzCmd(C, "ZoomOut", TRUE, speed)
         IN  IF D.raised \/ ~D.ok THEN D
             ELSE [D EXCEPT !.is_moving = TRUE, !.move_direction = "out",
                            !.current_speed = speed, !.last_cmd_time = now]

\* a _stop() that forgets to clear the direction and the speed
ZoomStopKeepingDirection(C, now) ==
    IF C.raised \/ ~C.is_moving THEN C
    ELSE LET D == PtzCmd(C, IF C.move_direction = "in" THEN "ZoomIn" ELSE "ZoomOut",
                         FALSE, 3)
         IN  Then(D, [D EXCEPT !.is_moving = FALSE, !.zoom_stopped_time = now])

\* _stop(): nothing unless _is_moving; the result of the stop command is not looked at
ZoomStop(C, now) ==
    IF C.raised \/ ~C.is_moving THEN C
    ELSE LET D == PtzCmd(C, IF C.move_direction = "in" THEN "ZoomIn" ELSE "ZoomOut",
                         FALSE, 3)
         IN  Then(D, [D EXCEPT !.is_moving = FALSE, !.move_direction = "",
                               !.current_speed = 0, !.zoom_stopped_time = now])

\* now - self._persist_start >= PERSIST_SECONDS
Persisted(start, now) == now - start >= PERSIST_SECONDS

\* a manager that never gives a face up
FacesLostNever(last, now) == FALSE

\* now - self._last_face_time > NO_FACE_TIMEOUT
FacesLost(last, now) == now - last > NO_FACE_TIMEOUT

\* now - self._zoom_start_time > MAX_ZOOM_IN_TIME
ZoomInTimedOut(start, now) == now - start > MAX_ZOOM_IN_TIME

\* an overshoot test that nothing passes
TooLargeNever(faces) == FALSE

\* max(face_sizes) > FACE_LARGE_PX
TooLarge(faces) == SeqMax(faces) > FACE_LARGE_PX

\* a target test that nothing passes
TargetReachedNever(faces) == FALSE

\* smallest >= FACE_TARGET_PX
TargetReached(faces) == SeqMin(faces) >= FACE_TARGET_PX

\* a size test that every face passes
IsSmallAlways(faces) == TRUE

\* smallest < FACE_SMALL_PX
IsSmall(faces) == SeqMin(faces) < FACE_SMALL_PX

\* self._zoom_start_face_size > 0 and current_max <= self._zoom_start_face_size * 1.3,
\* with current_max = max(face_sizes) if face_sizes else 0
Plateaued(start_size, faces) ==
    /\ start_size > 0
    /\ (IF faces = <<>> THEN 0 ELSE SeqMax(faces)) * 10 <= start_size * 13

\* a full return that keeps the plateau count
PlateauAfterReturnKept(count) == count

\* self._zoom_plateau_count = 0 on RETURNING -> IDLE
PlateauAfterReturn(count) == 0

\* a return that never zooms in again
ReturnRezoomsNever(C, now, faces) == FALSE

\* if smallest < FACE_SMALL_PX in _returning_logic
ReturnRezooms(C, now, faces) == IsSmall(faces)

\* _idle_logic(now, face_sizes, face_positions)
IdleLogic(C, now, faces) ==
    IF faces = <<>> THEN [C EXCEPT !.persist_start = 0]
    ELSE IF IsSmall(faces) THEN
        IF C.persist_start = 0 THEN [C EXCEPT !.persist_start = now]
        ELSE IF Persisted(C.persist_start, now) THEN
            IF C.zoom_plateau_count >= 2 THEN C
            ELSE LET A == StartZoomIn(C, CalcZoomInSpeed(SeqMin(faces)), now)
                 IN  Then(A, [A EXCEPT !.zoom_start_time = now,
                                       !.zoom_start_face_size = SeqMin(faces),
                                       !.state = "zooming_in"])
        ELSE C
    ELSE [C EXCEPT !.persist_start = 0]

\* _zooming_in_logic(now, face_sizes, face_positions)
ZoomingInLogic(C, now, faces) ==
    IF FacesLost(C.last_face_time, now) THEN
        LET A == StartZoomOut(ZoomStop(C, now), 6, now)
        IN  Then(A, [A EXCEPT !.zoom_start_time = now, !.state = "returning"])
    ELSE IF ZoomInTimedOut(C.zoom_start_time, now) THEN
        LET A == ZoomStop(C, now)
        IN  Then(A, [A EXCEPT !.zoom_plateau_count =
                                 IF Plateaued(C.zoom_start_face_size, faces)
                                 THEN @ + 1 ELSE 0,
                              !.state = "tracking"])
    ELSE IF faces = <<>> THEN C
    ELSE IF TooLarge(faces) THEN
        LET A == StartZoomOut(ZoomStop(C, now), 2, now)
        IN  Then(A, [A EXCEPT !.zoom_start_time = now, !.state = "zooming_out"])
    ELSE IF TargetReached(faces) THEN
        LET A == ZoomStop(C, now)
        IN  Then(A, [A EXCEPT !.state = "tracking"])
    ELSE IF /\ now - C.last_cmd_time > SPEED_UPDATE_INTERVAL
            /\ CalcZoomInSpeed(SeqMin(faces)) # C.current_speed
         THEN StartZoomIn(ZoomStop(C, now), CalcZoomInSpeed(SeqMin(faces)), now)
    ELSE C

\* _tracking_logic(now, face_sizes, face_positions)
TrackingLogic(C, now, faces) ==
    IF FacesLost(C.last_face_time, now) THEN
        LET A == StartZoomOut(C, 5, now)
        IN  Then(A, [A EXCEPT !.zoom_start_time = now, !.state = "returning"])
    ELSE IF faces = <<>> THEN C
    ELSE IF IsSmall(faces) /\ C.zoom_plateau_count < 2 THEN
        LET A == StartZoomIn(C, CalcZoomInSpeed(SeqMin(faces)), now)
        IN  Then(A, [A EXCEPT !.zoom_start_time = now,
                              !.zoom_start_face_size = SeqMin(faces),
                              !.state = "zooming_in"])
    ELSE IF TooLarge(faces) THEN
        LET A == StartZoomOut(C, 2, now)
        IN  Then(A, [A EXCEPT !.zoom_start_time = now, !.state = "zooming_out"])
    ELSE C

\* _zooming_out_logic(now, face_sizes)
ZoomingOutLogic(C, now, faces) ==
    IF faces = <<>> THEN
        IF FacesLost(C.last_face_time, now) THEN [C EXCEPT !.state = "returning"] ELSE C
    ELSE IF SeqMax(faces) <= FACE_TARGET_PX + 20 /\ SeqMin(faces) >= FACE_SMALL_PX \div 2 THEN
        LET A == ZoomStop(C, now)
        IN  Then(A, [A EXCEPT !.state = "tracking"])
    ELSE IF now - C.zoom_start_time > ZOOM_OUT_TIMEOUT THEN
        LET A == ZoomStop(C, now)
        IN  Then(A, [A EXCEPT !.state = "tracking"])
    ELSE C

\* _returning_logic(now, face_sizes)
ReturningLogic(C, now, faces) ==
    IF faces # <<>> THEN
        LET A == ZoomStop(C, now)
        IN  IF ReturnRezooms(C, now, faces) THEN
                LET B == StartZoomIn(A, CalcZoomInSpeed(SeqMin(faces)), now)
                IN  Then(B, [B EXCEPT !.zoom_start_time = now, !.state = "zooming_in"])
            ELSE Then(A, [A EXCEPT !.state = "tracking"])
    ELSE IF now - C.zoom_start_time > MAX_RETURN_TIME THEN
        LET A == ZoomStop(C, now)
        IN  Then(A, [A EXCEPT !.state = "idle",
                              !.zoom_plateau_count = PlateauAfterReturn(@)])
    ELSE IF now - C.last_face_time > NO_FACE_TIMEOUT + MAX_RETURN_TIME THEN
        LET A == ZoomStop(C, now)
        IN  Then(A, [A EXCEPT !.state = "idle",
                              !.zoom_plateau_count = PlateauAfterReturn(@)])
    ELSE C

\* update(), the lines before the lock: a frame with faces stamps _last_face_time
ZoomSeen(C, now, faces) ==
    IF faces # <<>> THEN [C EXCEPT !.last_face_time = now] ELSE C

\* update(), the `with self._lock:` section: the rule of the state
ZoomLocked(C, now, faces) ==
    CASE C.state = "idle"        -> IdleLogic(C, now, faces)
      [] C.state = "zooming_in"  -> ZoomingInLogic(C, now, faces)
      [] C.state = "tracking"    -> TrackingLogic(C, now, faces)
      [] C.state = "zooming_out" -> ZoomingOutLogic(C, now, faces)
      [] C.state = "returning"   -> ReturningLogic(C, now, faces)

\* the body of update(): the lines before the lock, then the locked section
ZoomUpdate(C, now, faces) == ZoomLocked(ZoomSeen(C, now, faces), now, faces)

\* the dict update() returns; "raised" when an exception left the call instead
ZoomStatus(C) ==
    IF C.raised THEN [raised |-> TRUE]
    ELSE [raised |-> FALSE, state |-> C.state, is_moving |-> C.is_moving,
          direction |-> C.move_direction, speed |-> C.current_speed,
          connected |-> C.connected]

\* start(): zoom out at speed 7, sleep 5 s, stop, IDLE
ZoomStart(C, now) ==
    LET A == ZoomStop(StartZoomOut(C, 7, now), now + START_SLEEP)
    IN  Then(A, [A EXCEPT !.state = "idle"])

\* reset(): stop, zoom out at speed 7, sleep 3 s, stop, IDLE
ZoomReset(C, now) ==
    LET A == ZoomStop(StartZoomOut(ZoomStop(C, now), 7, now), now + RESET_SLEEP)
    IN  Then(A, [A EXCEPT !.state = "idle"])

\* the manager after __init__; the wall clock is far above every timeout, as
\* time.time() is
ZoomInit ==
    /\ z_state = "idle"
    /\ z_last_face_time = 0
    /\ z_persist_start = 0
    /\ z_is_moving = FALSE
    /\ z_move_direction = ""
    /\ z_zoom_start_time = 0
    /\ z_last_cmd_time = 0
    /\ z_current_speed = 0
    /\ z_zoom_stopped_time = 0
    /\ z_zoom_start_face_size = 0
    /\ z_zoom_plateau_count = 0
    /\ z_connected = FALSE
    /\ z_clock = StartTime
    /\ z_calls = 0
    /\ z_op = "none"
    /\ z_pre = [state |-> "none"]
    /\ z_faces = <<>>
    /\ z_cmds = <<>>
    /\ z_status = [raised |-> FALSE]
    /\ z_cycle = [start |-> 0, flat |-> 0, watch |-> 0]
    /\ l_lock = "free"
    /\ l_pc = [t \in {"loop", "ctl"} |-> "idle"]
    /\ l_call = [now |-> 0, faces |-> <<>>]
    /\ l_unlocked = {}
    /\ l_locked_cmds = {}

\* _calc_zoom_in_speed not called on its own
SpeedIdle == z_speed_in = <<0, 0>> /\ z_speed_out = <<0, 0>>

\* History of the zoom-in cycles.  start: the smallest face of the update() that began
\* the current (or last) cycle.  flat: how many of the most recent cycles, with no stay
\* in IDLE since, ended one after the other by the safety timeout with the largest face
\* at most 1.3 times start.  watch: the time of the first of the update() calls that
\* have seen a small face without interruption in the current stay in IDLE (0: the last
\* call saw none, or the manager is not in IDLE or has just entered it).
NextFlat(old, pre, post, op, now, faces) ==
    IF post.state = "idle" THEN 0
    ELSE IF pre.state = "zooming_in" /\ post.state # "zooming_in"
         THEN IF /\ op = "update"
                 /\ post.state = "tracking"
                 /\ ZoomInTimedOut(pre.zoom_start_time, now)
                 /\ faces # <<>>
                 /\ SeqMax(faces) * 10 <= old.start * 13
              THEN old.flat + 1 ELSE 0
    ELSE old.flat

NextWatch(old, pre, post, op, now, faces) ==
    IF op = "update" /\ pre.state = "idle" /\ post.state = "idle" /\ faces # <<>>
       /\ IsSmall(faces)
    THEN IF old.watch = 0 THEN now ELSE old.watch
    ELSE 0

NextCycle(old, pre, post, op, now, faces) ==
    [start |-> IF pre.state # "zooming_in" /\ post.state = "zooming_in"
               THEN SeqMin(faces) ELSE old.start,
     flat  |-> NextFlat(old, pre, post, op, now, faces),
     watch |-> NextWatch(old, pre, post, op, now, faces)]

\* the manager's variables after a call that ended as R at time end
ZoomStep(R, op, end, now, faces) ==
    /\ z_state' = R.state
    /\ z_last_face_time' = R.last_face_time
    /\ z_persist_start' = R.persist_start
    /\ z_is_moving' = R.is_moving
    /\ z_move_direction' = R.move_direction
    /\ z_zoom_start_time' = R.zoom_start_time
    /\ z_last_cmd_time' = R.last_cmd_time
    /\ z_current_speed' = R.current_speed
    /\ z_zoom_stopped_time' = R.zoom_stopped_time
    /\ z_zoom_start_face_size' = R.zoom_start_face_size
    /\ z_zoom_plateau_count' = R.zoom_plateau_count
    /\ z_connected' = R.connected
    /\ z_clock' = end
    /\ z_calls' = z_calls + 1
    /\ z_op' = op
    /\ z_pre' = ZoomState
    /\ z_faces' = faces
    /\ z_cmds' = R.cmds
    /\ z_status' = IF op = "update" THEN ZoomStatus(R) ELSE [raised |-> R.raised]
    /\ z_cycle' = NextCycle(z_cycle, ZoomState, R, op, now, faces)
    /\ UNCHANGED <<trackerVars, detectorVars, gateVars, z_speed_in, z_speed_out, lockVars>>

\* the tracker variables after update() returned u on input dets
TrackerStep(u, dets) ==
    /\ next_id' = u.T.next_id
    /\ objects' = u.T.objects
    /\ prev_objects' = u.T.prev_objects
    /\ bboxes' = u.T.bboxes
    /\ disappeared' = u.T.disappeared
    /\ results' = u.results
    /\ detections' = dets
    /\ calls' = calls + 1
    /\ streak' = NextStreak(streak, TrackerState, u.T, u.results)
    /\ UNCHANGED <<max_disappeared, max_distance>>

\* ------------------------------------------------------------------ tracker specification

\* one CentroidTracker.update(detections) call
UpdateCall ==
    /\ calls < MaxCalls
    /\ \E dets \in TrackerInputs :
         \E order \in UpdateOrders(TrackerState, dets) :
         \E u \in {Update(TrackerState, dets, order, max_disappeared, max_distance)} :
            TrackerStep(u, dets)
    /\ UNCHANGED <<detectorVars, gateVars, zoomVars>>

InitTracker ==
    /\ \E maxdis \in 0..MaxDisappearedArg : TrackerInit(maxdis, DEFAULT_MAX_DISTANCE)
    /\ DetectorInit([lineType |-> "free", crossDirection |-> "forward",
                     x1 |-> 0, y1 |-> 500, x2 |-> 1000, y2 |-> 500])
    /\ clock = 0
    /\ GateInit
    /\ g_clock = StartTime
    /\ ZoomInit
    /\ SpeedIdle

NextTracker == UpdateCall

SpecTracker == InitTracker /\ [][NextTracker]_vars

\* ------------------------------------------------------------------ tracker claims

\* ids registered by the step
NewIds == next_id..(next_id' - 1)

\* C8: update() returns entries only for ids that were live before the call; an id
\* registered during the call is not in the returned mapping; and on a tracker with no
\* live track every detection of a non-empty frame is registered, in order, under a new
\* id, and the returned mapping is empty.
C8_ReturnsOnlyPriorTracks ==
    [][calls' # calls =>
        /\ ResultIds(results') \subseteq DOMAIN objects
        /\ NewIds \cap ResultIds(results') = {}
        /\ (DOMAIN objects = {} /\ Len(detections') > 0) =>
              /\ results' = <<>>
              /\ next_id' = next_id + Len(detections')
              /\ DOMAIN objects' = NewIds
              /\ \A i \in 1..Len(detections') :
                    /\ bboxes'[next_id + i - 1] = detections'[i]
                    /\ objects'[next_id + i - 1] = Centroid2(detections'[i])]_vars

\* a call that returned a matched track and registered another one (live, not returned,
\* never missed), and an id registered earlier that is returned now
C8_Witness ==
    /\ results # <<>>
    /\ \E id \in DOMAIN objects :
          id \notin ResultIds(results) /\ disappeared[id] = 0 /\ id > results[1].id

\* C9: with one live track and one detection closer than max_distance, the detection is
\* matched to the track: it is returned under the same id with the new centroid and no
\* id is created; and in any frame every detection farther than max_distance from every
\* live track is registered under a new id.
C9_MatchKeepsIdFarGetsNewId ==
    [][calls' # calls =>
        /\ \A id \in DOMAIN objects :
              (/\ DOMAIN objects = {id}
               /\ Len(detections') = 1
               /\ Dist2(objects[id], Centroid2(detections'[1]))
                     < 4 * max_distance * max_distance)
              => /\ ResultIds(results') = {id}
                 /\ results'[1].bbox = detections'[1]
                 /\ next_id' = next_id
                 /\ DOMAIN objects' = {id}
                 /\ objects'[id] = Centroid2(detections'[1])
                 /\ prev_objects'[id] = objects[id]
        /\ \A c \in 1..Len(detections') :
              (\A id \in DOMAIN objects :
                  Dist2(objects[id], Centroid2(detections'[c]))
                     > 4 * max_distance * max_distance)
              => /\ Cardinality({id \in NewIds : bboxes'[id] = detections'[c]})
                      >= Cardinality({d \in 1..Len(detections') :
                                         detections'[d] = detections'[c]})
                 /\ \A i \in 1..Len(results') : results'[i].bbox # detections'[c]]_vars

\* the only live track, registered after an earlier one had gone, was matched by the
\* only detection of the frame, which lies elsewhere but within max_distance: it is
\* returned under its id and no id was created
C9_Witness ==
    /\ Len(detections) = 1
    /\ Len(results) = 1
    /\ DOMAIN objects = {results[1].id}
    /\ results[1].id = next_id - 1
    /\ results[1].id >= 1
    /\ results[1].prev_centroid # results[1].centroid
    /\ ~TooFar(Dist2(results[1].prev_centroid, results[1].centroid), max_distance)

\* C10: a track is live exactly as long as it has gone at most max_disappeared
\* consecutive update() calls without a returned entry (after max_disappeared such calls
\* it is live, after max_disappeared + 1 it is deregistered), and a match resets its
\* disappeared count: the count equals the current run of unmatched calls.
C10_DecayAfterMaxDisappeared ==
    /\ DOMAIN streak = 0..(next_id - 1)
    /\ \A id \in DOMAIN streak :
          /\ id \in DOMAIN objects <=> streak[id] <= max_disappeared
          /\ id \notin DOMAIN objects => streak[id] = max_disappeared + 1
          /\ id \in DOMAIN objects => disappeared[id] = streak[id]
    /\ \A i \in 1..Len(results) : disappeared[results[i].id] = 0

\* with max_disappeared >= 1: one track is gone, another is live after exactly
\* max_disappeared unmatched calls, and a third was matched in the last call
C10_Witness ==
    /\ max_disappeared >= 1
    /\ \E id \in DOMAIN streak : id \notin DOMAIN objects
    /\ \E id \in DOMAIN objects : streak[id] = max_disappeared
    /\ results # <<>>

\* C11: ids are handed out in strictly increasing order and never reused: a call never
\* lowers next_id, the ids that become live in a call are exactly next_id .. next_id' - 1
\* (so each differs from every id handed out before, live or deregistered), an id that
\* was handed out and is not live stays not live, and every live id is below next_id.
C11_IdsIncreaseNeverReused ==
    [][calls' # calls =>
        /\ next_id' >= next_id
        /\ DOMAIN objects' \ DOMAIN objects = NewIds
        /\ \A id \in 0..(next_id - 1) : id \notin DOMAIN objects => id \notin DOMAIN objects'
        /\ DOMAIN objects' \subseteq 0..(next_id' - 1)
        /\ DOMAIN streak' = 0..(next_id' - 1)]_vars

\* a track was registered by the last call (live, not returned, never missed) after a
\* track with a smaller id had been deregistered
C11_Witness ==
    /\ next_id >= 2
    /\ (next_id - 1) \in DOMAIN objects
    /\ streak[next_id - 1] = 0
    /\ (next_id - 1) \notin ResultIds(results)
    /\ prev_objects[next_id - 1] = objects[next_id - 1]
    /\ \E id \in 0..(next_id - 2) : id \notin DOMAIN objects /\ streak[id] > max_disappeared

\* ------------------------------------------------------------------ detector specification

\* most loop iterations explored
MaxFrames == 5

\* the employees face recognition may return
Employees == {"e1", "e2"}

\* a 200 x 300 box whose bottom edge is at y = v and whose left edge is at x = v
BoxA(v) == <<v, v - 300, v + 200, v>>

\* the same box 450 to the left: farther than 0.35 from every BoxA
BoxB(v) == <<v - 450, v - 300, v - 250, v>>

\* bottom edges: beyond the threshold (the lines below are 1.0 long, the threshold is
\* 5 thousandths from them), exactly at it, within it, on either side of y = x = 500
Levels == {520, 505, 502, 498, 495, 480}

\* the configured tripwire: a horizontal free line at y = 0.5 in both directions, a
\* vertical line at x = 0.5 (forward: left edges) and one at x = 0.7 (backward: right
\* edges)
Tripwires ==
    {[lineType |-> "free", crossDirection |-> d, x1 |-> 0, y1 |-> 500, x2 |-> 1000,
      y2 |-> 500] : d \in {"forward", "backward"}}
    \cup {[lineType |-> "vertical", crossDirection |-> "forward", x1 |-> 500, y1 |-> 0,
           x2 |-> 500, y2 |-> 1000],
          [lineType |-> "vertical", crossDirection |-> "backward", x1 |-> 700, y1 |-> 0,
           x2 |-> 700, y2 |-> 1000]}

\* the frames of the detector specification: no body, one body at any level, or a
\* body and a second one far from it, each well on one side of the line
DetectorInputs ==
    {<<>>} \cup {<<BoxA(v)>> : v \in Levels}
           \cup {<<BoxA(v), BoxB(w)>> : v \in {520, 480}, w \in {520, 480}}

\* one iteration of the `while not self.stopped` loop that got a frame: YOLO returned
\* dets, dt seconds after the previous iteration
FrameUpTo(most, inputs, dts, lags, outcomes) ==
    /\ calls < most
    /\ \E dets \in inputs, dt \in dts :
         \E order \in UpdateOrders(TrackerState, dets) :
         \E u \in {Update(TrackerState, dets, order, max_disappeared, max_distance)} :
         \E rec \in [FiredIds(DOMAIN u.T.objects, u.results, tripwire, clock + dt)
                       -> outcomes] :
         \E lag \in IF \E id \in DOMAIN rec : rec[id] # "none" THEN lags ELSE {0} :
         \E D \in {ProcessTracks(DOMAIN u.T.objects, u.results, tripwire, clock + dt,
                                 rec, lag)} :
            /\ TrackerStep(u, dets)
            /\ track_initial_side' = D.side
            /\ crossings_detected' = D.crossings
            /\ faces_recognized' = D.faces
            /\ cooldowns' = D.cooldowns
            /\ recognized_cache' = D.cache
            /\ clock' = D.clock
            /\ frame_pre' = LoopStart(DOMAIN u.T.objects, clock + dt).side
            /\ frame_purged' = DOMAIN track_initial_side \ DOMAIN u.T.objects
            /\ frame_s' = D.seen
            /\ frame_fired' = D.fired
            /\ frame_events' = D.events
            /\ run_hist' = NextRunHist(run_hist, DOMAIN u.T.objects, D)
            /\ not_returned' = NextNotReturned(not_returned, DOMAIN u.T.objects, D,
                                               tripwire.crossDirection)
            /\ last_report' = NextLastReport(last_report, D.events)
    /\ UNCHANGED <<tripwire, grabVars, gateVars, zoomVars>>

\* the iterations of the detector and cooldown specifications
Frame(inputs, dts, lags, outcomes) == FrameUpTo(MaxFrames, inputs, dts, lags, outcomes)

\* the loop of a detector watching bodies move about the line
DetectorFrame == Frame(DetectorInputs, {1}, {0}, {"none", "e1"})

InitDetector ==
    /\ TrackerInit(DETECTOR_MAX_DISAPPEARED, DETECTOR_MAX_DISTANCE)
    /\ \E tw \in Tripwires : DetectorInit(tw)
    /\ clock = StartTime
    /\ GateInit
    /\ g_clock = StartTime
    /\ ZoomInit
    /\ SpeedIdle

NextDetector == DetectorFrame

SpecDetector == InitDetector /\ [][NextDetector]_vars

\* ------------------------------------------------------------------ crossing claims

\* the jitter threshold in the units of the kept side values
Thr == 2 * CROSS_THRESHOLD

\* C1: with cross_direction = forward, over any run of consecutive frames in which a
\* track is returned, its side value starts above +threshold and never increases, the
\* crossing fires exactly at the first frame whose side value is <= -threshold (negative,
\* not below the threshold in size) and at no other frame; so a run that ends below
\* -threshold holds exactly one crossing.
C1_OneCrossingPerPass ==
    tripwire.crossDirection = "forward" =>
        \A id \in DOMAIN run_hist :
            LET h == run_hist[id]
            IN  \A i \in 1..Len(h) :
                    h[i].s > Thr =>
                        \A j \in i..Len(h) :
                            /\ h[j].fired <=>
                                  (h[j].s <= -Thr /\ \A k \in i..(j - 1) : h[k].s > -Thr)
                            /\ h[j].s < -Thr =>
                                  Cardinality({k \in i..j : h[k].fired}) = 1

\* a forward pass of four frames: above the threshold, inside the band, then the
\* crossing at the first frame beyond the band, then a further frame with no crossing
C1_Witness ==
    /\ tripwire.crossDirection = "forward"
    /\ \E id \in DOMAIN run_hist :
          LET h == run_hist[id]
          IN  /\ Len(h) = 4
              /\ h[1].s > Thr
              /\ Abs(h[2].s) < Thr
              /\ h[3].s <= -Thr /\ h[3].fired
              /\ h[4].s < -Thr /\ ~h[4].fired

\* s_init -> s_curr is a flip beyond the threshold against the configured direction
WrongWay(dir, si, sc) ==
    /\ Abs(sc) >= Thr
    /\ IF dir = "forward" THEN si < 0 /\ sc > 0 ELSE si > 0 /\ sc < 0

\* s_init -> s_curr is a flip beyond the threshold in the configured direction
RightWay(dir, si, sc) ==
    /\ Abs(sc) >= Thr
    /\ IF dir = "forward" THEN si > 0 /\ sc < 0 ELSE si < 0 /\ sc > 0

\* C2: a returned track with an established side that flips beyond the threshold
\* against the configured direction fires no crossing and its stored side becomes
\* s_curr; crossings_detected grows by the crossings of the frame only, each of them
\* a flip beyond the threshold in the configured direction, so the wrong-way flip
\* leaves it unchanged; and a flip beyond the threshold in the configured direction,
\* from whatever side is stored (re-anchored or not), fires.
C2_WrongDirectionReanchors ==
    [][calls' # calls =>
        /\ \A id \in DOMAIN frame_s' \cap DOMAIN track_initial_side :
              /\ WrongWay(tripwire.crossDirection, track_initial_side[id], frame_s'[id]) =>
                    /\ id \notin Range(frame_fired')
                    /\ id \in DOMAIN track_initial_side'
                    /\ track_initial_side'[id] = frame_s'[id]
              /\ RightWay(tripwire.crossDirection, track_initial_side[id], frame_s'[id])
                    <=> id \in Range(frame_fired')
        /\ Range(frame_fired') \subseteq DOMAIN frame_s' \cap DOMAIN track_initial_side
        /\ crossings_detected' = crossings_detected + Len(frame_fired')
        /\ Cardinality(Range(frame_fired')) = Len(frame_fired')]_vars

\* a frame in which a track flipped against the direction and was re-anchored, while
\* the crossing counter already counted an earlier crossing
C2_Witness ==
    /\ crossings_detected > 0
    /\ frame_fired = <<>>
    /\ \E id \in DOMAIN frame_s \cap DOMAIN frame_pre :
          /\ WrongWay(tripwire.crossDirection, frame_pre[id], frame_s[id])
          /\ track_initial_side[id] = frame_s[id]
          /\ track_initial_side[id] # frame_pre[id]

\* C3: a returned track with no established side gets an entry exactly when
\* |s_curr| > threshold, the entry is s_curr, and it fires no crossing; so while its
\* side value stays within [-threshold, +threshold], whatever its sign, it has no
\* entry and fires nothing.
C3_JitterEstablishesNothing ==
    \A id \in DOMAIN frame_s :
        id \notin DOMAIN frame_pre =>
            /\ id \notin Range(frame_fired)
            /\ id \in DOMAIN track_initial_side <=> Abs(frame_s[id]) > Thr
            /\ id \in DOMAIN track_initial_side => track_initial_side[id] = frame_s[id]

\* a track with no side that went from exactly +threshold to exactly -threshold in
\* consecutive frames and still has no side
C3_Witness ==
    \E id \in DOMAIN run_hist :
        /\ Len(run_hist[id]) = 2
        /\ run_hist[id][1].s = Thr
        /\ run_hist[id][2].s = -Thr
        /\ id \notin DOMAIN frame_pre
        /\ id \notin DOMAIN track_initial_side
        /\ crossings_detected = 0

\* C4: a fired crossing deletes the track's initial-side entry; a track that fired in
\* one frame does not fire in the next; and a track that fired fires again only after
\* a frame in which it was returned on the origin side at or beyond the threshold
\* (s >= threshold for forward, s <= -threshold for backward).
C4_NoRetriggerUntilBack ==
    [][calls' # calls =>
        \A id \in Range(frame_fired') :
            /\ id \in DOMAIN track_initial_side
            /\ id \notin DOMAIN track_initial_side'
            /\ id \notin Range(frame_fired)
            /\ id \notin not_returned]_vars

\* the only track fires its second crossing
C4_Witness ==
    /\ next_id = 1
    /\ crossings_detected = 2
    /\ frame_fired = <<0>>

\* ------------------------------------------------------------------ cooldown specification

\* two bodies per frame, each well on either side of the line
CooldownInputs == {<<BoxA(v), BoxB(w)>> : v \in {520, 480}, w \in {520, 480}}

\* the loop of a detector whose tracks keep crossing, a second or two minutes apart,
\* with _set_cooldown reading the clock up to a second after _check_cooldown
CooldownFrame == Frame(CooldownInputs, {1, 119}, {0, 1}, Employees \cup {"none"})

InitCooldown ==
    /\ TrackerInit(DETECTOR_MAX_DISAPPEARED, DETECTOR_MAX_DISTANCE)
    /\ \E tw \in {t \in Tripwires : t.lineType = "free" /\ t.crossDirection = "forward"} :
          DetectorInit(tw)
    /\ clock = StartTime
    /\ GateInit
    /\ g_clock = StartTime
    /\ ZoomInit
    /\ SpeedIdle

NextCooldown == CooldownFrame

SpecCooldown == InitCooldown /\ [][NextCooldown]_vars

\* the clock of the last report for employee emp before event k of the frame's
\* recognised crossings evs, -1 when there was none
LastReportBefore(old, evs, k, emp) ==
    LET prior == {j \in 1..(k - 1) : evs[j].emp = emp /\ evs[j].reported}
    IN  IF prior # {}
        THEN evs[CHOOSE j \in prior : \A i \in prior : i <= j].mark
        ELSE IF emp \in DOMAIN old THEN old[emp] ELSE -1

\* C5: in one detector, a crossing recognised as employee e less than COOLDOWN_SECONDS
\* after e's last report is suppressed: it reports nothing and leaves the cooldown
\* mark as it was; a crossing recognised as e with no earlier report, or at least
\* COOLDOWN_SECONDS after the last one, is reported and marks the cooldown. So the
\* mark of e is always the clock of e's last report, and faces_recognized counts the
\* reports.
C5_CooldownSuppressesRepeat ==
    [][calls' # calls =>
        /\ \A k \in 1..Len(frame_events') :
              LET e == frame_events'[k]
                  last == LastReportBefore(last_report, frame_events', k, e.emp)
              IN  /\ (last >= 0 /\ e.at - last < COOLDOWN_SECONDS) => ~e.reported
                  /\ (last < 0 \/ e.at - last >= COOLDOWN_SECONDS) => e.reported
        /\ cooldowns' = last_report'
        /\ faces_recognized' = faces_recognized
              + Cardinality({k \in 1..Len(frame_events') : frame_events'[k].reported})]_vars

\* employee e1 alone was ever reported, twice; in the last frame two tracks crossed
\* and were both recognised as e1: the first was reported again (its window had
\* elapsed), the second was suppressed
C5_Witness ==
    /\ DOMAIN cooldowns = {"e1"}
    /\ faces_recognized = 2
    /\ Len(frame_events) = 2
    /\ frame_events[1].emp = "e1" /\ frame_events[1].reported
    /\ frame_events[2].emp = "e1" /\ ~frame_events[2].reported

\* ------------------------------------------------------------------ attendance gate

\* COOLDOWN_SECONDS of attendance-service/main.py (environment default)
ATTENDANCE_COOLDOWN_SECONDS == 120

\* MAX_RECENT
MAX_RECENT == 100

\* most _report_event / _report_search_sighting calls explored
MaxGateCalls == 4

\* most clock ticks explored
MaxGateTicks == 2

\* seconds per clock tick
TickSeconds == 60

\* known employees, and the persons searched for
GateEmployees == {"s1", "s2"}
SearchPersons == {"p1"}

\* a gate whose window never holds
InCooldownNever(cd, key, now) == FALSE

\* last = _cooldowns.get(key, 0); now - last < COOLDOWN_SECONDS
InCooldown(cd, key, now) ==
    now - (IF key \in DOMAIN cd THEN cd[key] ELSE 0) < ATTENDANCE_COOLDOWN_SECONDS

\* a mark that clears nothing
ClearOthersNothing(cd, subject, camera) == cd

\* to_remove = [k for k in _cooldowns if k[0] == employee_id and k[1] != camera_id]
ClearOthers(cd, subject, camera) ==
    [k \in {q \in DOMAIN cd : ~(q[1] = subject /\ q[2] # camera)} |-> cd[k]]

\* _recent_events.append(event), dropping the oldest beyond MAX_RECENT
AppendRecent(recent, ev) ==
    IF Len(recent) + 1 > MAX_RECENT THEN Tail(Append(recent, ev)) ELSE Append(recent, ev)

\* camera thread c enters _report_event or _report_search_sighting: key and
\* now = time.time() are taken before the lock
GateRead(c) ==
    /\ g_pc[c] = "idle"
    /\ g_count < MaxGateCalls
    /\ \E call \in ([kind : {"event"}, subject : GateEmployees, now : {g_clock}]
                    \cup [kind : {"sighting"}, subject : SearchPersons, now : {g_clock}]) :
          g_call' = [g_call EXCEPT ![c] = call]
    /\ g_pc' = [g_pc EXCEPT ![c] = "read"]
    /\ g_count' = g_count + 1
    /\ UNCHANGED <<g_cooldowns, g_recent, g_clock, g_last, g_last_cam, g_reported_at>>
    /\ UNCHANGED <<trackerVars, detectorVars, zoomVars>>

\* history: what the locked section of camera c did
GateRecord(c, reported) ==
    [kind      |-> g_call[c].kind,
     subject   |-> g_call[c].subject,
     camera    |-> c,
     now       |-> g_call[c].now,
     reported  |-> reported,
     pre       |-> g_cooldowns,
     prev_cam  |-> IF g_call[c].subject \in DOMAIN g_last_cam
                   THEN g_last_cam[g_call[c].subject] ELSE "none",
     prev_here |-> IF <<g_call[c].subject, c>> \in DOMAIN g_reported_at
                   THEN g_reported_at[<<g_call[c].subject, c>>] ELSE -1]

\* _report_event, `with _cooldowns_lock:` section of camera thread c
GateEvent(c) ==
    /\ g_pc[c] = "read"
    /\ g_call[c].kind = "event"
    /\ LET key == <<g_call[c].subject, c>>
           now == g_call[c].now
       IN  IF InCooldown(g_cooldowns, key, now)
           THEN /\ g_pc' = [g_pc EXCEPT ![c] = "idle"]
                /\ g_last' = GateRecord(c, FALSE)
                /\ UNCHANGED <<g_cooldowns, g_last_cam, g_reported_at>>
           ELSE /\ g_cooldowns' = ClearOthers(Put(g_cooldowns, key, now), key[1], c)
                /\ g_pc' = [g_pc EXCEPT ![c] = "store"]
                /\ g_last' = GateRecord(c, TRUE)
                /\ g_last_cam' = Put(g_last_cam, key[1], c)
                /\ g_reported_at' = Put(g_reported_at, key, now)
    /\ UNCHANGED <<g_recent, g_call, g_clock, g_count>>
    /\ UNCHANGED <<trackerVars, detectorVars, zoomVars>>

\* _report_event, `with _recent_events_lock:` section; the push thread follows
GateStore(c) ==
    /\ g_pc[c] = "store"
    /\ g_recent' = AppendRecent(g_recent, [subject |-> g_call[c].subject, camera |-> c])
    /\ g_pc' = [g_pc EXCEPT ![c] = "idle"]
    /\ UNCHANGED <<g_cooldowns, g_call, g_clock, g_count, g_last, g_last_cam,
                   g_reported_at>>
    /\ UNCHANGED <<trackerVars, detectorVars, zoomVars>>

\* _report_search_sighting, `with _cooldowns_lock:` section of camera thread c
GateSighting(c) ==
    /\ g_pc[c] = "read"
    /\ g_call[c].kind = "sighting"
    /\ LET key == <<g_call[c].subject, c>>
           now == g_call[c].now
       IN  IF InCooldown(g_cooldowns, key, now)
           THEN /\ g_last' = GateRecord(c, FALSE)
                /\ UNCHANGED <<g_cooldowns, g_last_cam, g_reported_at>>
           ELSE /\ g_cooldowns' = Put(g_cooldowns, key, now)
                /\ g_last' = GateRecord(c, TRUE)
                /\ g_last_cam' = Put(g_last_cam, key[1], c)
                /\ g_reported_at' = Put(g_reported_at, key, now)
    /\ g_pc' = [g_pc EXCEPT ![c] = "idle"]
    /\ UNCHANGED <<g_recent, g_call, g_clock, g_count>>
    /\ UNCHANGED <<trackerVars, detectorVars, zoomVars>>

\* time passes
GateTick ==
    /\ g_clock < StartTime + MaxGateTicks * TickSeconds
    /\ g_clock' = g_clock + TickSeconds
    /\ UNCHANGED <<g_cooldowns, g_recent, g_pc, g_call, g_count, g_last, g_last_cam,
                   g_reported_at>>
    /\ UNCHANGED <<trackerVars, detectorVars, zoomVars>>

InitGate ==
    /\ TrackerInit(DETECTOR_MAX_DISAPPEARED, DETECTOR_MAX_DISTANCE)
    /\ DetectorInit([lineType |-> "free", crossDirection |-> "forward",
                     x1 |-> 0, y1 |-> 500, x2 |-> 1000, y2 |-> 500])
    /\ clock = StartTime
    /\ GateInit
    /\ g_clock = StartTime
    /\ ZoomInit
    /\ SpeedIdle

NextGate ==
    \/ \E c \in Cameras : GateRead(c)
    \/ \E c \in Cameras : GateEvent(c)
    \/ \E c \in Cameras : GateStore(c)
    \/ \E c \in Cameras : GateSighting(c)
    \/ GateTick

SpecGate == InitGate /\ [][NextGate]_vars

\* ------------------------------------------------------------------ gate claims

\* the statement of C6 as written: once subject s was reported on camera A at time
\* t, every further _report_event for (s, A) with now < t + COOLDOWN_SECONDS is
\* suppressed, whatever was reported for s on other cameras in between
C6_SuppressedOnAUntilWindowElapses ==
    (g_last.kind = "event" /\ g_last.prev_here >= 0
        /\ g_last.now < g_last.prev_here + ATTENDANCE_COOLDOWN_SECONDS)
    => ~g_last.reported

\* C6 (amended): once subject s was reported by _report_event on camera A at time t,
\* a further _report_event for (s, A) with now < t + COOLDOWN_SECONDS is suppressed
\* exactly when the last reported event of s was that one on A; when s has since been
\* reported on another camera, the entry of (s, A) is gone and the event is reported.
C6_SuppressedOnAUnlessReportedElsewhere ==
    (g_last.kind = "event" /\ g_last.prev_here >= 0
        /\ g_last.now < g_last.prev_here + ATTENDANCE_COOLDOWN_SECONDS)
    => /\ g_last.prev_cam = g_last.camera => ~g_last.reported
       /\ g_last.prev_cam # g_last.camera => g_last.reported

\* an event for (s, A) one tick after its report there was suppressed, while another
\* subject holds an entry on the other camera
C6_Witness ==
    /\ g_last.kind = "event"
    /\ ~g_last.reported
    /\ g_last.prev_cam = g_last.camera
    /\ g_last.now = g_last.prev_here + TickSeconds
    /\ \E k \in DOMAIN g_cooldowns : k[1] # g_last.subject /\ k[2] # g_last.camera

\* C7: a reported _report_event for subject s on camera A leaves (s, A) marked with
\* its now, no entry of s on any other camera, and every entry of every other subject
\* as it was; so the next event for s on another camera B finds no entry and, with
\* now >= COOLDOWN_SECONDS, is reported, however recently (s, B) had been marked.
C7_OtherCameraAllowedAfterMark ==
    g_last.kind = "event" =>
        /\ g_last.reported =>
              /\ <<g_last.subject, g_last.camera>> \in DOMAIN g_cooldowns
              /\ g_cooldowns[<<g_last.subject, g_last.camera>>] = g_last.now
              /\ \A c \in Cameras \ {g_last.camera} :
                    <<g_last.subject, c>> \notin DOMAIN g_cooldowns
              /\ \A k \in DOMAIN g_last.pre \cup DOMAIN g_cooldowns :
                    k[1] # g_last.subject =>
                       /\ k \in DOMAIN g_last.pre
                       /\ k \in DOMAIN g_cooldowns
                       /\ g_cooldowns[k] = g_last.pre[k]
        /\ (g_last.prev_cam \in Cameras \ {g_last.camera}) => g_last.reported

\* subject s was reported on B although its last report on B is one tick old, because
\* it was reported on A in between; another subject's entry on A survived
C7_Witness ==
    /\ g_last.kind = "event"
    /\ g_last.reported
    /\ g_last.prev_cam \in Cameras \ {g_last.camera}
    /\ g_last.prev_here >= 0
    /\ g_last.now = g_last.prev_here + TickSeconds
    /\ \E k \in DOMAIN g_cooldowns : k[1] # g_last.subject /\ k[2] = g_last.prev_cam

\* ------------------------------------------------------------------ zoom specification

\* ------------------------------------------------------------------ purge specification

\* most loop iterations explored with one body that comes and goes: enough for a track
\* to be registered, returned and then missed DETECTOR_MAX_DISAPPEARED + 1 times
MaxPurgeFrames == 34

\* no body, or one body well on either side of the line
PurgeInputs == {<<>>, <<BoxA(520)>>, <<BoxA(480)>>}

\* the loop of a detector whose scene empties for long stretches; no face is recognised
PurgeFrame == FrameUpTo(MaxPurgeFrames, PurgeInputs, {1}, {0}, {"none"})

InitPurge ==
    /\ TrackerInit(DETECTOR_MAX_DISAPPEARED, DETECTOR_MAX_DISTANCE)
    /\ DetectorInit([lineType |-> "free", crossDirection |-> "forward",
                     x1 |-> 0, y1 |-> 500, x2 |-> 1000, y2 |-> 500])
    /\ clock = StartTime
    /\ GateInit
    /\ g_clock = StartTime
    /\ ZoomInit
    /\ SpeedIdle

NextPurge == PurgeFrame

SpecPurge == InitPurge /\ [][NextPurge]_vars

\* ------------------------------------------------------------------ purge claims

\* C30: after every frame the ids of the initial-side map are ids of tracks live in the
\* tracker, and none of the ids purged as stale in the frame is back in the map
C30_SideMapHoldsLiveTracksOnly ==
    /\ DOMAIN track_initial_side \subseteq DOMAIN objects
    /\ frame_purged \cap DOMAIN track_initial_side = {}
    /\ frame_purged \cap DOMAIN objects = {}

\* a frame without a detection in which the tracker deregistered a track, missed for
\* the 31st time, whose entry was in the map and was purged
C30_Witness ==
    /\ detections = <<>>
    /\ \E id \in frame_purged :
          /\ id \notin DOMAIN objects
          /\ id \in DOMAIN streak
          /\ streak[id] = DETECTOR_MAX_DISAPPEARED + 1

\* most update() calls explored with every camera answer
MaxZoomCalls == 5

\* most calls explored with a camera that always answers 200
MaxPlateauCalls == 8

\* what the camera answers to a PTZ request
Outcomes == {"ok", "http", "error"}

\* the faces of a frame, by height: none, far (40), at target size (90), too near
\* (200), a far and a near one
ZoomFaces == {<<>>, <<40>>, <<90>>, <<200>>, <<40, 200>>}

\* time between two calls: exactly PERSIST_SECONDS, more than NO_FACE_TIMEOUT, more than
\* MAX_RETURN_TIME
ZoomSteps == {10, 60, 160}

\* one update(face_locations, frame_h, frame_w) call, dt after the previous call; the
\* number of PTZ requests of an update() does not depend on their outcomes
ZoomUpdateCall(most, inputs, dts, outcomes) ==
    /\ z_calls < most
    /\ \E faces \in inputs : \E dt \in dts :
         \E n \in {Len(ZoomUpdate(ZoomCall(ZoomState, <<"ok", "ok">>),
                                  z_clock + dt, faces).cmds)} :
         \E outs \in [1..n -> outcomes] :
         \E R \in {ZoomUpdate(ZoomCall(ZoomState, outs), z_clock + dt, faces)} :
            ZoomStep(R, "update", z_clock + dt, z_clock + dt, faces)

\* one start() call; answers that no request consumed are fixed to "ok"
ZoomStartCall(most, outcomes) ==
    /\ z_calls < most
    /\ \E outs \in [1..2 -> outcomes] :
         \E R \in {ZoomStart(ZoomCall(ZoomState, outs), z_clock)} :
            /\ \A i \in 1..Len(R.outs) : R.outs[i] = "ok"
            /\ ZoomStep(R, "start", z_clock + START_SLEEP, z_clock, <<>>)

\* one reset() call
ZoomResetCall(most, outcomes) ==
    /\ z_calls < most
    /\ \E outs \in [1..3 -> outcomes] :
         \E R \in {ZoomReset(ZoomCall(ZoomState, outs), z_clock)} :
            /\ \A i \in 1..Len(R.outs) : R.outs[i] = "ok"
            /\ ZoomStep(R, "reset", z_clock + RESET_SLEEP, z_clock, <<>>)

\* the detection loop calling update() with a camera that may fail
ZoomUpdateAny == ZoomUpdateCall(MaxZoomCalls, ZoomFaces, ZoomSteps, Outcomes)

InitZoom ==
    /\ TrackerInit(DETECTOR_MAX_DISAPPEARED, DETECTOR_MAX_DISTANCE)
    /\ DetectorInit([lineType |-> "free", crossDirection |-> "forward",
                     x1 |-> 0, y1 |-> 500, x2 |-> 1000, y2 |-> 500])
    /\ clock = StartTime
    /\ GateInit
    /\ g_clock = StartTime
    /\ ZoomInit
    /\ SpeedIdle

NextZoom == ZoomUpdateAny

SpecZoom == InitZoom /\ [][NextZoom]_vars

\* ------------------------------------------------------------------ plateau specification

\* far faces only (40, 70) or none
PlateauFaces == {<<>>, <<40>>, <<70>>}

\* exactly PERSIST_SECONDS, or more than every timeout
PlateauSteps == {10, 160}

\* update(), start() and reset() with a camera that always answers 200
PlateauUpdate == ZoomUpdateCall(MaxPlateauCalls, PlateauFaces, PlateauSteps, {"ok"})

PlateauStart == ZoomStartCall(MaxPlateauCalls, {"ok"})

PlateauReset == ZoomResetCall(MaxPlateauCalls, {"ok"})

NextPlateau ==
    \/ PlateauUpdate
    \/ PlateauStart
    \/ PlateauReset

SpecPlateau == InitZoom /\ [][NextPlateau]_vars

\* ------------------------------------------------------------------ zoom claims

\* ------------------------------------------------------------------ target specification

\* most calls explored with a face in every frame
MaxTargetCalls == 8

\* a face in every frame: far (40) or at target size (90)
TargetFaces == {<<40>>, <<90>>}

\* update() with a camera that always answers 200
TargetUpdate == ZoomUpdateCall(MaxTargetCalls, TargetFaces, PlateauSteps, {"ok"})

NextTarget == TargetUpdate

SpecTarget == InitZoom /\ [][NextTarget]_vars

\* the step is an update() call
IsUpdate == z_calls' # z_calls /\ z_op' = "update"

\* the requests of the last call are exactly one start of action at speed
OnlyStart(cmds, action, speed) ==
    /\ Len(cmds) = 1
    /\ cmds[1].action = action /\ cmds[1].start /\ cmds[1].speed = speed

\* some request of the last call is a start of action
HasStart(cmds, action) == \E i \in 1..Len(cmds) : cmds[i].action = action /\ cmds[i].start

\* C12: in IDLE with plateau_count < 2, the first update() that sees a small face (no
\* running observation of a small face in this stay in IDLE) stays IDLE, sends nothing
\* and starts the persistence timer at its now; an update() with a small face at least
\* PERSIST_SECONDS after that first sighting sends one ZoomIn start at the speed of the
\* smallest face and moves to ZOOMING_IN; a 40 px face gives speed 6.
C12_SmallFacePersistsThenZoomIn ==
    [][(IsUpdate /\ z_state = "idle" /\ z_zoom_plateau_count < 2
        /\ z_faces' # <<>> /\ IsSmall(z_faces')) =>
          /\ z_cycle.watch = 0 =>
                /\ z_state' = "idle"
                /\ z_cmds' = <<>>
                /\ z_persist_start' = z_clock'
          /\ (z_cycle.watch # 0 /\ z_clock' - z_cycle.watch >= PERSIST_SECONDS) =>
                /\ z_state' = "zooming_in"
                /\ OnlyStart(z_cmds', "ZoomIn", CalcZoomInSpeed(SeqMin(z_faces')))
          /\ CalcZoomInSpeed(40) = 6]_vars

\* the last call was an update() that found the manager in state st with a frame of
\* faces
UpdatedFrom(st) == z_op = "update" /\ z_pre.state = st

\* some request of the last call is a stop
HasStop(cmds) == \E i \in 1..Len(cmds) : ~cmds[i].start

\* the last call stopped the motor: a motor that was moving got the stop request of its
\* direction first, one that was not got none; _is_moving is False afterwards
StoppedFirst ==
    /\ z_pre.is_moving =>
          /\ Len(z_cmds) >= 1
          /\ ~z_cmds[1].start
          /\ z_cmds[1].action = (IF z_pre.move_direction = "in" THEN "ZoomIn" ELSE "ZoomOut")
    /\ ~z_pre.is_moving => ~HasStop(z_cmds)

\* the target-reached case of ZOOMING_IN: a frame with faces (so a face was seen within
\* NO_FACE_TIMEOUT), the zoom has run for at most MAX_ZOOM_IN_TIME, smallest face at
\* least FACE_TARGET_PX and largest at most FACE_LARGE_PX
TargetCase ==
    /\ UpdatedFrom("zooming_in")
    /\ z_faces # <<>>
    /\ z_clock - z_pre.zoom_start_time <= MAX_ZOOM_IN_TIME
    /\ SeqMin(z_faces) >= FACE_TARGET_PX
    /\ SeqMax(z_faces) <= FACE_LARGE_PX

\* C13 as stated: in the target-reached case update() sends the stop command and moves
\* to TRACKING with is_moving = False.
C13_TargetReachedSendsStop ==
    TargetCase => /\ HasStop(z_cmds)
                  /\ z_state = "tracking"
                  /\ ~z_is_moving

\* C13, amended: in the target-reached case update() moves to TRACKING with
\* is_moving = False, having sent exactly the ZoomIn stop request when the motor was
\* moving and no request when it was not (the start of the zoom-in had failed).
C13_TargetReachedStopsIfMoving ==
    TargetCase => /\ z_state = "tracking"
                  /\ ~z_is_moving
                  /\ z_move_direction = "" /\ z_current_speed = 0
                  /\ StoppedFirst
                  /\ Len(z_cmds) = (IF z_pre.is_moving THEN 1 ELSE 0)
                  /\ z_zoom_plateau_count = z_pre.zoom_plateau_count

\* a moving zoom-in was stopped at the target size
C13_Witness ==
    /\ TargetCase
    /\ z_pre.is_moving /\ z_pre.move_direction = "in"
    /\ z_cmds = <<PtzRequest("ZoomIn", FALSE, 0, z_cmds[1].outcome)>>
    /\ z_state = "tracking"

\* C14: after two zoom-in cycles in a row that each ended by the MAX_ZOOM_IN_TIME
\* safety timeout with the face grown by at most 30% over the cycle, plateau_count is
\* 2; and while plateau_count >= 2 an update() in IDLE with a small face persisted for
\* PERSIST_SECONDS or more stays in IDLE and sends no ZoomIn start.
C14_TwoFlatCyclesSuppressZoomIn ==
    [][IsUpdate =>
          /\ (z_cycle'.flat >= 2 /\ z_cycle'.flat # z_cycle.flat) =>
                z_zoom_plateau_count' = 2
          /\ (z_state = "idle" /\ z_zoom_plateau_count >= 2 /\ z_faces' # <<>>
              /\ IsSmall(z_faces') /\ z_persist_start # 0
              /\ Persisted(z_persist_start, z_clock')) =>
                /\ z_state' = "idle"
                /\ ~HasStart(z_cmds', "ZoomIn")]_vars

\* the return-finished case of RETURNING: a frame without a face, at which more than
\* MAX_RETURN_TIME has passed since the zoom-out start or no face has been seen for more
\* than NO_FACE_TIMEOUT + MAX_RETURN_TIME
ReturnOver ==
    /\ UpdatedFrom("returning")
    /\ z_faces = <<>>
    /\ \/ z_clock - z_pre.zoom_start_time > MAX_RETURN_TIME
       \/ z_clock - z_pre.last_face_time > NO_FACE_TIMEOUT + MAX_RETURN_TIME

\* C15: in the return-finished case update() stops the motor (the stop request of the
\* running direction if it was moving, is_moving = False afterwards, no start request),
\* sets plateau_count to 0 and moves to IDLE; and every update() that takes RETURNING
\* to IDLE leaves plateau_count = 0.
C15_ReturnOverResetsPlateau ==
    /\ ReturnOver => /\ z_state = "idle"
                     /\ z_zoom_plateau_count = 0
                     /\ ~z_is_moving
                     /\ StoppedFirst
                     /\ \A i \in 1..Len(z_cmds) : ~z_cmds[i].start
    /\ (UpdatedFrom("returning") /\ z_state = "idle") =>
          /\ z_zoom_plateau_count = 0
          /\ ReturnOver

\* a moving zoom-out with plateau_count > 0 ended in IDLE by the MAX_RETURN_TIME rule
C15_Witness ==
    /\ ReturnOver
    /\ z_clock - z_pre.zoom_start_time > MAX_RETURN_TIME
    /\ z_pre.zoom_plateau_count > 0
    /\ z_pre.is_moving /\ z_pre.move_direction = "out"
    /\ z_state = "idle"

\* ------------------------------------------------------------------ speed specification

\* largest face height given to _calc_zoom_in_speed
MaxFacePx == 130

\* _calc_zoom_in_speed(a) and _calc_zoom_in_speed(b)
SpeedCall ==
    /\ z_speed_out = <<0, 0>>
    /\ z_speed_out' = <<CalcZoomInSpeed(z_speed_in[1]), CalcZoomInSpeed(z_speed_in[2])>>
    /\ UNCHANGED <<trackerVars, detectorVars, gateVars, z_state, z_last_face_time,
                   z_persist_start, z_is_moving, z_move_direction, z_zoom_start_time,
                   z_last_cmd_time, z_current_speed, z_zoom_stopped_time,
                   z_zoom_start_face_size, z_zoom_plateau_count, z_connected, z_clock,
                   z_calls, z_op, z_pre, z_faces, z_cmds, z_status, z_cycle, z_speed_in,
                   lockVars>>

InitSpeed ==
    /\ TrackerInit(DETECTOR_MAX_DISAPPEARED, DETECTOR_MAX_DISTANCE)
    /\ DetectorInit([lineType |-> "free", crossDirection |-> "forward",
                     x1 |-> 0, y1 |-> 500, x2 |-> 1000, y2 |-> 500])
    /\ clock = StartTime
    /\ GateInit
    /\ g_clock = StartTime
    /\ ZoomInit
    /\ z_speed_in \in (0..MaxFacePx) \X (0..MaxFacePx)
    /\ z_speed_out = <<0, 0>>

NextSpeed == SpeedCall

SpecSpeed == InitSpeed /\ [][NextSpeed]_vars

\* the speed table of the claim, read top to bottom
SpeedTable(size) ==
    IF size < 30 THEN 7
    ELSE IF size < 50 THEN 6
    ELSE IF size < 80 THEN 5
    ELSE IF size < 100 THEN 4
    ELSE IF size < FACE_SMALL_PX THEN 3
    ELSE 1

\* C16: _calc_zoom_in_speed(size) is the table size<30 -> 7, <50 -> 6, <80 -> 5,
\* <100 -> 4, <FACE_SMALL_PX -> 3, otherwise 1; its result is an integer in 1..7; and
\* of two sizes the larger never gets the higher speed.
C16_SpeedTableMonotone ==
    z_speed_out # <<0, 0>> =>
        /\ z_speed_out[1] = SpeedTable(z_speed_in[1])
        /\ z_speed_out[1] \in 1..7
        /\ z_speed_in[1] <= z_speed_in[2] => z_speed_out[1] >= z_speed_out[2]

\* the speeds of a 40 px and of a 99 px face were computed: 6 and 4
C16_Witness ==
    /\ z_speed_in = <<40, 99>>
    /\ z_speed_out = <<6, 4>>

\* ------------------------------------------------------------------ zoom claims, continued

\* the states of HwZoomState
ZoomStates == {"idle", "zooming_in", "tracking", "zooming_out", "returning"}

\* the last request of the last call is a start the camera did not answer with 200
StartFailed ==
    /\ z_cmds # <<>>
    /\ z_cmds[Len(z_cmds)].start
    /\ z_cmds[Len(z_cmds)].outcome # "ok"

\* C17: no outcome of a PTZ request raises out of update(): every update() returns its
\* status record (the fields as the call left them); after a start that failed (non-200
\* or network error) is_moving is False, move_direction is empty and current_speed is 0,
\* not the requested motion; and the manager is in one of its five states, from which
\* the next update() runs.
C17_FailedStartDoesNotRaise ==
    z_op = "update" =>
        /\ z_status = [raised |-> FALSE, state |-> z_state, is_moving |-> z_is_moving,
                       direction |-> z_move_direction, speed |-> z_current_speed,
                       connected |-> z_connected]
        /\ z_state \in ZoomStates
        /\ StartFailed => /\ ~z_is_moving
                          /\ z_move_direction = ""
                          /\ z_current_speed = 0
        /\ (z_cmds # <<>> /\ z_cmds[Len(z_cmds)].outcome = "error") => ~z_connected

\* an update() in TRACKING returned its record after a ZoomIn start that raised a
\* network error: ZOOMING_IN with the motor not moving
C17_Witness ==
    /\ z_op = "update"
    /\ StartFailed
    /\ z_cmds[Len(z_cmds)].outcome = "error"
    /\ z_cmds[Len(z_cmds)].action = "ZoomIn"
    /\ z_state = "zooming_in"
    /\ z_pre.state = "tracking"
    /\ ~z_status.raised /\ ~z_status.is_moving

\* the faces-lost case of state st: an update() without a face at which the last face
\* was seen more than NO_FACE_TIMEOUT ago
LostCase(st) ==
    /\ UpdatedFrom(st)
    /\ z_faces = <<>>
    /\ z_clock - z_pre.last_face_time > NO_FACE_TIMEOUT

\* the last request of the last call is a start of action at speed, and the motor
\* moves that way exactly if the camera answered 200
EndsWithStart(action, direction, speed) ==
    /\ z_cmds # <<>>
    /\ z_cmds[Len(z_cmds)].action = action
    /\ z_cmds[Len(z_cmds)].start
    /\ z_cmds[Len(z_cmds)].speed = speed
    /\ \A i \in 1..(Len(z_cmds) - 1) : ~z_cmds[i].start
    /\ IF z_cmds[Len(z_cmds)].outcome = "ok"
       THEN z_is_moving /\ z_move_direction = direction /\ z_current_speed = speed
       ELSE ~z_is_moving /\ z_move_direction = "" /\ z_current_speed = 0

\* C18: in the faces-lost case ZOOMING_IN stops the zoom-in and sends ZoomOut start at
\* speed 6, TRACKING sends ZoomOut start at speed 5; both move to RETURNING and record
\* now as the zoom-out start time.  The rule comes first: it applies whatever the time
\* since the zoom-in start, and leaves plateau_count alone.
C18_FacesLostReturns ==
    /\ LostCase("zooming_in") =>
          /\ z_state = "returning"
          /\ StoppedFirst
          /\ EndsWithStart("ZoomOut", "out", 6)
          /\ Len(z_cmds) = (IF z_pre.is_moving THEN 2 ELSE 1)
          /\ z_zoom_start_time = z_clock
          /\ z_zoom_plateau_count = z_pre.zoom_plateau_count
    /\ LostCase("tracking") =>
          /\ z_state = "returning"
          /\ EndsWithStart("ZoomOut", "out", 5)
          /\ Len(z_cmds) = 1
          /\ z_zoom_start_time = z_clock
          /\ z_zoom_plateau_count = z_pre.zoom_plateau_count

\* faces were lost in a moving zoom-in that had also run for more than MAX_ZOOM_IN_TIME
C18_Witness ==
    /\ LostCase("zooming_in")
    /\ z_clock - z_pre.zoom_start_time > MAX_ZOOM_IN_TIME
    /\ z_pre.is_moving
    /\ z_state = "returning"
    /\ z_is_moving /\ z_current_speed = 6

\* an update() whose largest face exceeds FACE_LARGE_PX, in state st
LargeCase(st) ==
    /\ UpdatedFrom(st)
    /\ z_faces # <<>>
    /\ SeqMax(z_faces) > FACE_LARGE_PX

\* the zoom-in rule of TRACKING applies
TrackingZoomInRule ==
    SeqMin(z_faces) < FACE_SMALL_PX /\ z_pre.zoom_plateau_count < 2

\* the last call moved to ZOOMING_OUT with a ZoomOut start at speed 2
OvershootOut ==
    /\ z_state = "zooming_out"
    /\ EndsWithStart("ZoomOut", "out", 2)
    /\ z_zoom_start_time = z_clock

\* C19 as stated: every update() with a face above FACE_LARGE_PX moves to ZOOMING_OUT
\* with ZoomOut start at speed 2, in ZOOMING_IN after a stop, in TRACKING when the
\* zoom-in rule does not apply
C19_TooLargeZoomsOut ==
    /\ LargeCase("zooming_in") => StoppedFirst /\ OvershootOut
    /\ (LargeCase("tracking") /\ ~TrackingZoomInRule) => OvershootOut

\* C19, amended: in ZOOMING_IN the overshoot rule applies while the zoom-in has run for
\* at most MAX_ZOOM_IN_TIME (the safety timeout is evaluated before it and leads to
\* TRACKING); it precedes the target-reached rule
C19_TooLargeZoomsOutBeforeTimeout ==
    /\ (LargeCase("zooming_in") /\ z_clock - z_pre.zoom_start_time <= MAX_ZOOM_IN_TIME) =>
          StoppedFirst /\ OvershootOut
    /\ (LargeCase("zooming_in") /\ z_clock - z_pre.zoom_start_time > MAX_ZOOM_IN_TIME) =>
          StoppedFirst /\ z_state = "tracking" /\ ~z_is_moving
    /\ (LargeCase("tracking") /\ ~TrackingZoomInRule) => OvershootOut

\* a moving zoom-in saw a single face above FACE_LARGE_PX, which also meets the target,
\* and now zooms out at speed 2
C19_Witness ==
    /\ LargeCase("zooming_in")
    /\ z_faces = <<200>>
    /\ z_pre.is_moving
    /\ z_state = "zooming_out"
    /\ z_is_moving /\ z_current_speed = 2

\* an update() in RETURNING that sees a face
ReturnFaceCase == UpdatedFrom("returning") /\ z_faces # <<>>

\* C20: in RETURNING an update() with a face stops the zoom-out in the same call,
\* whatever the persistence timer and the plateau counter hold; a smallest face below
\* FACE_SMALL_PX starts ZoomIn at the table's speed and gives ZOOMING_IN, any other
\* gives TRACKING with the motor stopped and no start request
C20_ReturnInterruptedByFace ==
    ReturnFaceCase =>
        /\ StoppedFirst
        /\ IF SeqMin(z_faces) < FACE_SMALL_PX
           THEN /\ z_state = "zooming_in"
                /\ EndsWithStart("ZoomIn", "in", SpeedTable(SeqMin(z_faces)))
                /\ z_zoom_start_time = z_clock
           ELSE /\ z_state = "tracking"
                /\ ~z_is_moving
                /\ ~\E i \in 1..Len(z_cmds) : z_cmds[i].start

\* a moving zoom-out of RETURNING was interrupted by a small face first seen in this
\* very frame, and the motor now zooms in
C20_Witness ==
    /\ ReturnFaceCase
    /\ z_faces = <<40>>
    /\ z_pre.is_moving
    /\ z_pre.last_face_time < z_clock - NO_FACE_TIMEOUT
    /\ z_state = "zooming_in"
    /\ z_is_moving /\ z_move_direction = "in"

\* an update() in IDLE whose frame has no face or only faces of FACE_SMALL_PX and more
IdleNoSmallFace ==
    /\ UpdatedFrom("idle")
    /\ (z_faces = <<>> \/ SeqMin(z_faces) >= FACE_SMALL_PX)

\* C21: an update() in IDLE without a face, or with a smallest face of at least
\* FACE_SMALL_PX, stays in IDLE, sends no PTZ request and leaves the persistence timer
\* at 0 whatever it was
C21_IdleWithoutSmallFaceResets ==
    IdleNoSmallFace =>
        /\ z_state = "idle"
        /\ z_cmds = <<>>
        /\ z_persist_start = 0
        /\ z_is_moving = z_pre.is_moving

\* IDLE saw a face of at least FACE_SMALL_PX while the persistence timer had been
\* running for PERSIST_SECONDS or more
C21_Witness ==
    /\ IdleNoSmallFace
    /\ z_faces # <<>>
    /\ z_pre.persist_start # 0
    /\ z_clock - z_pre.persist_start >= PERSIST_SECONDS
    /\ z_pre.zoom_plateau_count < 2
    /\ z_persist_start = 0

\* ------------------------------------------------------------------ tracker claims, continued

\* The reference greedy matcher: of the pairs (track id, detection column) whose track
\* and column are both unused and whose distance is at most max_distance, take one of
\* least distance and go on with the rest.  The value is the set of assignments the
\* matcher can end with (pairs of equal distance may be taken in either order).
RECURSIVE RefGreedy(_, _, _, _, _)
RefGreedy(free_ids, free_cols, objs0, dets, maxd) ==
    LET D(p)  == Dist2(objs0[p[1]], Centroid2(dets[p[2]]))
        cand  == {p \in free_ids \X free_cols : D(p) <= 4 * maxd * maxd}
        least == {p \in cand : \A q \in cand : D(p) <= D(q)}
    IN  IF cand = {} THEN {{}}
        ELSE UNION {{{p} \cup rest :
                        rest \in RefGreedy(free_ids \ {p[1]}, free_cols \ {p[2]},
                                           objs0, dets, maxd)}
                    : p \in least}

\* C22: in the matching branch update() returns the assignment of tracks to detection
\* boxes that the reference greedy matcher over all pairs computes
C22_SameAsReferenceGreedy ==
    [][(detections' # <<>> /\ DOMAIN objects # {}) =>
          {<<results'[i].id, results'[i].bbox>> : i \in 1..Len(results')}
             \in {{<<p[1], detections'[p[2]]>> : p \in A} :
                     A \in RefGreedy(DOMAIN objects, 1..Len(detections'), objects,
                                     detections', max_distance)}]_vars

\* ------------------------------------------------------------------ plateau claims

\* C23: an update() made in IDLE, TRACKING or RETURNING while plateau_count >= 2 neither
\* moves to ZOOMING_IN nor sends a ZoomIn start
C23_PlateauSuppressesZoomIn ==
    (/\ z_op = "update"
     /\ z_pre.state \in {"idle", "tracking", "returning"}
     /\ z_pre.zoom_plateau_count >= 2) =>
        /\ z_state # "zooming_in"
        /\ ~HasStart(z_cmds, "ZoomIn")

\* C24: plateau_count is between 0 and 2 in every reachable state
C24_PlateauCountAtMostTwo == z_zoom_plateau_count \in 0..2

\* C25: an update() that takes IDLE to ZOOMING_IN comes at least PERSIST_SECONDS after
\* the first of the small-face sightings made without interruption in this stay in IDLE
C25_ZoomInAfterPersistenceInIdle ==
    [][(IsUpdate /\ z_state = "idle" /\ z_state' = "zooming_in") =>
          /\ z_cycle.watch # 0
          /\ z_clock' - z_cycle.watch >= PERSIST_SECONDS]_vars

\* C26: an update() raises plateau_count to 2 only when the two most recent zoom-in
\* cycles both ended by the safety timeout without growing the face by more than 30%
\* (a cycle in between that ended by reaching the target or by overshoot breaks the run)
C26_PlateauNeedsConsecutiveFlatCycles ==
    (/\ z_op = "update"
     /\ z_pre.zoom_plateau_count < 2
     /\ z_zoom_plateau_count >= 2) => z_cycle.flat >= 2

\* the safety-timeout case of ZOOMING_IN: faces not lost, and more than MAX_ZOOM_IN_TIME
\* since the update() that began the zoom-in cycle
ZoomInTimeoutCase ==
    /\ UpdatedFrom("zooming_in")
    /\ (z_faces # <<>> \/ z_clock - z_pre.last_face_time <= NO_FACE_TIMEOUT)
    /\ z_clock - z_pre.zoom_start_time > MAX_ZOOM_IN_TIME

\* C27: in the safety-timeout case update() stops the motor and moves to TRACKING, and
\* plateau_count becomes one more when the largest face of the frame is at most 1.3
\* times the smallest face of the update() that began the current cycle, 0 otherwise
C27_TimeoutComparesWithCycleStart ==
    ZoomInTimeoutCase =>
        /\ StoppedFirst
        /\ ~z_is_moving
        /\ z_state = "tracking"
        /\ z_zoom_plateau_count =
              IF (IF z_faces = <<>> THEN 0 ELSE SeqMax(z_faces)) * 10 <= z_cycle.start * 13
              THEN z_pre.zoom_plateau_count + 1
              ELSE 0

\* ------------------------------------------------------------------ zoom claims, third part

\* an update() in ZOOMING_OUT more than ZOOM_OUT_TIMEOUT after the zoom-out start, or at
\* which no face has been seen for more than NO_FACE_TIMEOUT
ZoomOutOver ==
    /\ UpdatedFrom("zooming_out")
    /\ \/ z_clock - z_pre.zoom_start_time > ZOOM_OUT_TIMEOUT
       \/ z_faces = <<>> /\ z_clock - z_pre.last_face_time > NO_FACE_TIMEOUT

\* C28: such an update() stops the motor and leaves ZOOMING_OUT, for TRACKING or for
\* RETURNING, with or without a face in the frame
C28_ZoomOutEndsStopped ==
    ZoomOutOver =>
        /\ StoppedFirst
        /\ ~z_is_moving
        /\ z_state \in {"tracking", "returning"}

\* an update() made in state st with the motor not moving that stays in st
StaysUnmoved(st) ==
    /\ UpdatedFrom(st)
    /\ ~z_pre.is_moving
    /\ z_state = st

\* C29: an update() that finds the manager in a state that needs motion with the motor
\* not moving (its start had failed), and stays in that state, issues the start again:
\* ZoomOut in ZOOMING_OUT and RETURNING, ZoomIn in ZOOMING_IN (there with a face still
\* below the target in the frame and SPEED_UPDATE_INTERVAL since the last command)
C29_FailedStartRetried ==
    /\ StaysUnmoved("zooming_out") => HasStart(z_cmds, "ZoomOut")
    /\ StaysUnmoved("returning") => HasStart(z_cmds, "ZoomOut")
    /\ (/\ StaysUnmoved("zooming_in")
        /\ z_faces # <<>>
        /\ SeqMin(z_faces) < FACE_TARGET_PX
        /\ z_clock - z_pre.last_cmd_time > SPEED_UPDATE_INTERVAL) =>
          HasStart(z_cmds, "ZoomIn")

\* ------------------------------------------------------------------ recognition cache claims

\* C31: after every processed frame no entry of the recognition cache is older than
\* _RECOGNITION_DISPLAY_SECONDS, whether or not its track is still returned or live
C31_CacheEntriesExpire ==
    \A id \in DOMAIN recognized_cache :
        clock - recognized_cache[id].ts <= RECOGNITION_DISPLAY_SECONDS

\* the fired crossings of the frame just processed whose recognition returned a match
\* (the result of every recognition is cached under the track id)
MatchedCrossings(fired, cache) == {id \in Range(fired) : cache[id].name # "none"}

\* C32: a frame adds the number of its fired crossings to crossings_detected and runs
\* face recognition once for each (its result is cached under the track); the matched
\* crossings, and no others, are taken to the cooldown check, one attendance event is
\* reported for each of them that the cooldown allows, and faces_recognized counts the
\* reports; a frame whose crossings found no match, or that fired none, reports
\* nothing and leaves the cooldown marks and faces_recognized as they were
C32_CrossingCountedReportOnlyOnMatch ==
    [][calls' # calls =>
        LET evs     == frame_events'
            matched == MatchedCrossings(frame_fired', recognized_cache')
            reports == {k \in 1..Len(evs) : evs[k].reported}
        IN  /\ crossings_detected' = crossings_detected + Len(frame_fired')
            /\ Cardinality(Range(frame_fired')) = Len(frame_fired')
            /\ Range(frame_fired') \subseteq DOMAIN recognized_cache'
            /\ {evs[k].id : k \in 1..Len(evs)} = matched
            /\ Len(evs) = Cardinality(matched)
            /\ \A k \in 1..Len(evs) :
                  /\ evs[k].emp = recognized_cache'[evs[k].id].name
                  /\ evs[k].reported <=>
                        LET last == LastReportBefore(last_report, evs, k, evs[k].emp)
                        IN  last < 0 \/ evs[k].at - last >= COOLDOWN_SECONDS
            /\ faces_recognized' = faces_recognized + Cardinality(reports)
            /\ DOMAIN cooldowns' = DOMAIN cooldowns \cup {evs[k].emp : k \in reports}
            /\ reports = {} => cooldowns' = cooldowns]_vars

\* two crossings fired in one frame after an earlier report: one found no face and was
\* counted without an event, the other was recognised and reported
C32_Witness ==
    /\ Len(frame_fired) = 2
    /\ crossings_detected >= 3
    /\ \E id \in Range(frame_fired) : recognized_cache[id].name = "none"
    /\ Len(frame_events) = 1
    /\ frame_events[1].reported
    /\ faces_recognized = 2

\* ------------------------------------------------------------------ lock specification

\* most update(), start() and reset() calls started
MaxLockCalls == 4

\* the faces of a frame in the lock specification: none, or a far one
LockFaces == {<<>>, <<40>>}

\* the session fields that _start_zoom_in, _start_zoom_out and _stop assign
SessionMotor == {"is_moving", "move_direction", "current_speed"}

\* the manager's fields after a piece of code that ended as R
LockFields(R) ==
    /\ z_state' = R.state
    /\ z_last_face_time' = R.last_face_time
    /\ z_persist_start' = R.persist_start
    /\ z_is_moving' = R.is_moving
    /\ z_move_direction' = R.move_direction
    /\ z_zoom_start_time' = R.zoom_start_time
    /\ z_last_cmd_time' = R.last_cmd_time
    /\ z_current_speed' = R.current_speed
    /\ z_zoom_stopped_time' = R.zoom_stopped_time
    /\ z_zoom_start_face_size' = R.zoom_start_face_size
    /\ z_zoom_plateau_count' = R.zoom_plateau_count
    /\ z_connected' = R.connected
    /\ UNCHANGED <<trackerVars, detectorVars, gateVars, z_op, z_pre, z_faces, z_cmds,
                   z_status, z_cycle, z_speed_in, z_speed_out>>

\* history: the session fields op assigned without the lock
Unlocked(op, fields) == {[op |-> op, field |-> f] : f \in fields}

\* history: the PTZ requests of R, sent by op
Sent(op, R) ==
    {[op |-> op, action |-> R.cmds[i].action, start |-> R.cmds[i].start] :
        i \in 1..Len(R.cmds)}

\* the session fields _stop() assigns, after its one PTZ request, when the motor is
\* marked moving
StopWrites == IF z_is_moving THEN SessionMotor ELSE {}

\* update(), the lines before `with self._lock:` in the detection loop's thread, 1 s
\* after the previous call: now is taken and a frame with faces stamps _last_face_time
UpdateEnter ==
    /\ l_pc["loop"] = "idle"
    /\ z_calls < MaxLockCalls
    /\ \E faces \in LockFaces : \E dt \in {PERSIST_SECONDS} :
         /\ LockFields(ZoomSeen(ZoomCall(ZoomState, <<>>), z_clock + dt, faces))
         /\ z_clock' = z_clock + dt
         /\ l_call' = [now |-> z_clock + dt, faces |-> faces]
         /\ l_unlocked' = l_unlocked \cup
                (IF faces # <<>> THEN Unlocked("update", {"last_face_time"}) ELSE {})
    /\ z_calls' = z_calls + 1
    /\ l_pc' = [l_pc EXCEPT !["loop"] = "wait"]
    /\ UNCHANGED <<l_lock, l_locked_cmds>>

\* update() enters `with self._lock:`
UpdateAcquire ==
    /\ l_pc["loop"] = "wait"
    /\ l_lock = "free"
    /\ l_lock' = "loop"
    /\ l_pc' = [l_pc EXCEPT !["loop"] = "locked"]
    /\ UNCHANGED <<trackerVars, detectorVars, gateVars, z_state, z_last_face_time,
                   z_persist_start, z_is_moving, z_move_direction, z_zoom_start_time,
                   z_last_cmd_time, z_current_speed, z_zoom_stopped_time,
                   z_zoom_start_face_size, z_zoom_plateau_count, z_connected, z_clock,
                   z_calls, z_op, z_pre, z_faces, z_cmds, z_status, z_cycle, z_speed_in,
                   z_speed_out, l_call, l_unlocked, l_locked_cmds>>

\* update(), the locked section: the rule of the state with its PTZ requests, the
\* returned dict, and the release of the lock
UpdateLocked ==
    /\ l_pc["loop"] = "locked"
    /\ \E n \in {Len(ZoomLocked(ZoomCall(ZoomState, <<"ok", "ok">>),
                                l_call.now, l_call.faces).cmds)} :
         \E outs \in [1..n -> Outcomes] :
         \E R \in {ZoomLocked(ZoomCall(ZoomState, outs), l_call.now, l_call.faces)} :
            /\ LockFields(R)
            /\ l_locked_cmds' = l_locked_cmds \cup Sent("update", R)
    /\ l_lock' = "free"
    /\ l_pc' = [l_pc EXCEPT !["loop"] = "idle"]
    /\ UNCHANGED <<z_clock, z_calls, l_call, l_unlocked>>

\* start(), up to time.sleep(5), in another thread: _start_zoom_out(7)
StartBegin ==
    /\ l_pc["ctl"] = "idle"
    /\ z_calls < MaxLockCalls
    /\ \E outs \in [1..1 -> Outcomes] :
         \E R \in {StartZoomOut(ZoomCall(ZoomState, outs), 7, z_clock)} :
            /\ LockFields(R)
            /\ l_unlocked' = l_unlocked \cup
                   Unlocked("start", IF R.ok THEN SessionMotor ELSE {})
    /\ z_calls' = z_calls + 1
    /\ l_pc' = [l_pc EXCEPT !["ctl"] = "start_sleep"]
    /\ UNCHANGED <<z_clock, l_lock, l_call, l_locked_cmds>>

\* reset(), up to time.sleep(3): _stop() and _start_zoom_out(7)
ResetBegin ==
    /\ l_pc["ctl"] = "idle"
    /\ z_calls < MaxLockCalls
    /\ \E outs \in [1..(IF z_is_moving THEN 2 ELSE 1) -> Outcomes] :
         \E R \in {StartZoomOut(ZoomStop(ZoomCall(ZoomState, outs), z_clock), 7, z_clock)} :
            /\ LockFields(R)
            /\ l_unlocked' = l_unlocked \cup
                   Unlocked("reset", StopWrites \cup (IF R.ok THEN SessionMotor ELSE {}))
    /\ z_calls' = z_calls + 1
    /\ l_pc' = [l_pc EXCEPT !["ctl"] = "reset_sleep"]
    /\ UNCHANGED <<z_clock, l_lock, l_call, l_locked_cmds>>

\* time.sleep(5) of start(), time.sleep(3) of reset()
CtlSleep ==
    /\ l_pc["ctl"] \in {"start_sleep", "reset_sleep"}
    /\ z_clock' = z_clock + (IF l_pc["ctl"] = "start_sleep" THEN START_SLEEP
                             ELSE RESET_SLEEP)
    /\ l_pc' = [l_pc EXCEPT !["ctl"] = IF @ = "start_sleep" THEN "start_stop"
                                       ELSE "reset_stop"]
    /\ UNCHANGED <<trackerVars, detectorVars, gateVars, z_state, z_last_face_time,
                   z_persist_start, z_is_moving, z_move_direction, z_zoom_start_time,
                   z_last_cmd_time, z_current_speed, z_zoom_stopped_time,
                   z_zoom_start_face_size, z_zoom_plateau_count, z_connected,
                   z_calls, z_op, z_pre, z_faces, z_cmds, z_status, z_cycle, z_speed_in,
                   z_speed_out, l_lock, l_call, l_unlocked, l_locked_cmds>>

\* start(), after the sleep: _stop() and self._state = IDLE, with no lock
StartEnd ==
    /\ l_pc["ctl"] = "start_stop"
    /\ \E outs \in [1..(IF z_is_moving THEN 1 ELSE 0) -> Outcomes] :
         \E A \in {ZoomStop(ZoomCall(ZoomState, outs), z_clock)} :
            LockFields([A EXCEPT !.state = "idle"])
    /\ l_unlocked' = l_unlocked \cup Unlocked("start", StopWrites \cup {"state"})
    /\ l_pc' = [l_pc EXCEPT !["ctl"] = "idle"]
    /\ UNCHANGED <<z_clock, z_calls, l_lock, l_call, l_locked_cmds>>

\* reset(), after the sleep: _stop(), before the lock
ResetStop ==
    /\ l_pc["ctl"] = "reset_stop"
    /\ \E outs \in [1..(IF z_is_moving THEN 1 ELSE 0) -> Outcomes] :
         LockFields(ZoomStop(ZoomCall(ZoomState, outs), z_clock))
    /\ l_unlocked' = l_unlocked \cup Unlocked("reset", StopWrites)
    /\ l_pc' = [l_pc EXCEPT !["ctl"] = "reset_lock"]
    /\ UNCHANGED <<z_clock, z_calls, l_lock, l_call, l_locked_cmds>>

\* reset(), `with self._lock: self._state = IDLE`
ResetEnd ==
    /\ l_pc["ctl"] = "reset_lock"
    /\ l_lock = "free"
    /\ LockFields([ZoomCall(ZoomState, <<>>) EXCEPT !.state = "idle"])
    /\ l_pc' = [l_pc EXCEPT !["ctl"] = "idle"]
    /\ UNCHANGED <<z_clock, z_calls, l_lock, l_call, l_unlocked, l_locked_cmds>>

NextLock ==
    \/ UpdateEnter
    \/ UpdateAcquire
    \/ UpdateLocked
    \/ StartBegin
    \/ ResetBegin
    \/ CtlSleep
    \/ StartEnd
    \/ ResetStop
    \/ ResetEnd

SpecLock == InitZoom /\ [][NextLock]_vars

\* ------------------------------------------------------------------ lock claims

\* C33: the zoom session (state, is_moving, move_direction, current_speed,
\* plateau_count, last_face_time, zoom_start_time) is written only inside update()
\* while the lock is held: under every interleaving of update() with start() and
\* reset(), no thread assigns one of these fields without holding the lock
C33_SessionWrittenUnderLockOnly == l_unlocked = {}

\* C34: no PTZ request is sent by a thread that holds the manager's lock
C34_NoRequestUnderLock == l_locked_cmds = {}

\* ------------------------------------------------------------------ grabber specification

\* most frames the stream delivers
MaxGrabs == 3

\* max_retries of FrameGrabber.run
GRABBER_MAX_RETRIES == 10

\* a get_latest_frame() that leaves the frame in the slot
SlotKept(slot) == slot

\* get_latest_frame(): self._frame = None
SlotAfterGet(slot) == 0

\* FrameGrabber.run, head of the loop up to cap.read(): leave when stopped, or when the
\* stream is closed after max_retries failures in a row; open the stream when it is
\* closed (a failure counts and sleeps 5 s)
GrabConnect ==
    /\ f_pc = "head"
    /\ IF f_stop THEN /\ f_pc' = "done"
                      /\ f_cap' = FALSE
                      /\ UNCHANGED f_retry
       ELSE IF f_cap THEN /\ f_pc' = "read"
                          /\ UNCHANGED <<f_cap, f_retry>>
       ELSE IF f_retry >= GRABBER_MAX_RETRIES
            THEN /\ f_pc' = "done"
                 /\ UNCHANGED <<f_cap, f_retry>>
       ELSE \E opened \in BOOLEAN :
               IF opened THEN /\ f_cap' = TRUE
                              /\ f_retry' = 0
                              /\ f_pc' = "read"
               ELSE /\ f_retry' = f_retry + 1
                    /\ UNCHANGED <<f_cap, f_pc>>
    /\ UNCHANGED <<f_frame, f_stop, f_local, f_captured, d_pc, d_stop, d_frame,
                   d_received>>
    /\ UNCHANGED <<trackerVars, tripwire, track_initial_side, crossings_detected,
                   faces_recognized, cooldowns, recognized_cache, clock, frame_pre,
                   frame_purged, frame_s, frame_fired, frame_events, run_hist,
                   not_returned, last_report, gateVars, zoomVars>>

\* ret, frame = cap.read(): a frame, or a failure that releases the stream
GrabRead ==
    /\ f_pc = "read"
    /\ \E ret \in BOOLEAN :
         IF ret THEN /\ f_captured < MaxGrabs
                     /\ f_captured' = f_captured + 1
                     /\ f_local' = f_captured + 1
                     /\ f_pc' = "store"
                     /\ UNCHANGED f_cap
         ELSE /\ f_cap' = FALSE
              /\ f_pc' = "head"
              /\ UNCHANGED <<f_captured, f_local>>
    /\ UNCHANGED <<f_frame, f_stop, f_retry, d_pc, d_stop, d_frame, d_received>>
    /\ UNCHANGED <<trackerVars, tripwire, track_initial_side, crossings_detected,
                   faces_recognized, cooldowns, recognized_cache, clock, frame_pre,
                   frame_purged, frame_s, frame_fired, frame_events, run_hist,
                   not_returned, last_report, gateVars, zoomVars>>

\* with self._frame_lock: self._frame = frame
GrabStore ==
    /\ f_pc = "store"
    /\ f_frame' = f_local
    /\ f_pc' = "head"
    /\ UNCHANGED <<f_stop, f_cap, f_retry, f_local, f_captured, d_pc, d_stop, d_frame,
                   d_received>>
    /\ UNCHANGED <<trackerVars, tripwire, track_initial_side, crossings_detected,
                   faces_recognized, cooldowns, recognized_cache, clock, frame_pre,
                   frame_purged, frame_s, frame_fired, frame_events, run_hist,
                   not_returned, last_report, gateVars, zoomVars>>

\* LineCrossingDetector.run, `while not self.stopped:` and
\* frame = grabber.get_latest_frame(), which reads and clears the slot under the lock
LoopGet ==
    /\ d_pc = "head"
    /\ IF d_stop THEN /\ d_pc' = "leave"
                      /\ UNCHANGED <<f_frame, d_frame>>
       ELSE /\ d_frame' = f_frame
            /\ f_frame' = SlotAfterGet(f_frame)
            /\ d_pc' = "got"
    /\ UNCHANGED <<f_stop, f_pc, f_cap, f_retry, f_local, f_captured, d_stop,
                   d_received>>
    /\ UNCHANGED <<trackerVars, tripwire, track_initial_side, crossings_detected,
                   faces_recognized, cooldowns, recognized_cache, clock, frame_pre,
                   frame_purged, frame_s, frame_fired, frame_events, run_hist,
                   not_returned, last_report, gateVars, zoomVars>>

\* `if frame is None:` break when grabber.stopped, else sleep 0.05 s and poll again;
\* a frame is processed and the loop goes round
LoopCheck ==
    /\ d_pc = "got"
    /\ IF d_frame = 0
       THEN /\ d_pc' = IF f_stop THEN "leave" ELSE "head"
            /\ UNCHANGED d_received
       ELSE /\ d_received' = Append(d_received, d_frame)
            /\ d_pc' = "head"
    /\ UNCHANGED <<f_frame, f_stop, f_pc, f_cap, f_retry, f_local, f_captured, d_stop,
                   d_frame>>
    /\ UNCHANGED <<trackerVars, tripwire, track_initial_side, crossings_detected,
                   faces_recognized, cooldowns, recognized_cache, clock, frame_pre,
                   frame_purged, frame_s, frame_fired, frame_events, run_hist,
                   not_returned, last_report, gateVars, zoomVars>>

\* after the loop: grabber.stop(); grabber.join(timeout=3)
LoopLeave ==
    /\ d_pc = "leave"
    /\ f_stop' = TRUE
    /\ d_pc' = "done"
    /\ UNCHANGED <<f_frame, f_pc, f_cap, f_retry, f_local, f_captured, d_stop, d_frame,
                   d_received>>
    /\ UNCHANGED <<trackerVars, tripwire, track_initial_side, crossings_detected,
                   faces_recognized, cooldowns, recognized_cache, clock, frame_pre,
                   frame_purged, frame_s, frame_fired, frame_events, run_hist,
                   not_returned, last_report, gateVars, zoomVars>>

\* LineCrossingDetector.stop(), called by the service for this camera
DetectorStop ==
    /\ ~d_stop
    /\ d_pc # "done"
    /\ d_stop' = TRUE
    /\ UNCHANGED <<f_frame, f_stop, f_pc, f_cap, f_retry, f_local, f_captured, d_pc,
                   d_frame, d_received>>
    /\ UNCHANGED <<trackerVars, tripwire, track_initial_side, crossings_detected,
                   faces_recognized, cooldowns, recognized_cache, clock, frame_pre,
                   frame_purged, frame_s, frame_fired, frame_events, run_hist,
                   not_returned, last_report, gateVars, zoomVars>>

InitGrabber ==
    /\ TrackerInit(DETECTOR_MAX_DISAPPEARED, DETECTOR_MAX_DISTANCE)
    /\ DetectorInit([lineType |-> "free", crossDirection |-> "forward",
                     x1 |-> 0, y1 |-> 500, x2 |-> 1000, y2 |-> 500])
    /\ clock = StartTime
    /\ GateInit
    /\ g_clock = StartTime
    /\ ZoomInit
    /\ SpeedIdle

NextGrabber ==
    \/ GrabConnect
    \/ GrabRead
    \/ GrabStore
    \/ LoopGet
    \/ LoopCheck
    \/ LoopLeave
    \/ DetectorStop

SpecGrabber == InitGrabber /\ [][NextGrabber]_vars

\* Both threads keep running: the grabber thread and the detector loop are scheduled
\* again and again; nobody has to call stop().
SpecGrabberFair ==
    /\ SpecGrabber
    /\ WF_vars(GrabConnect)
    /\ WF_vars(GrabStore)
    /\ WF_vars(LoopGet)
    /\ WF_vars(LoopCheck)
    /\ WF_vars(LoopLeave)

\* ------------------------------------------------------------------ grabber claims

Increasing(seq) == \A i \in 1..Len(seq) : \A j \in 1..Len(seq) : i < j => seq[i] < seq[j]

\* C35: the slot holds at most one pending frame, always newer than every frame the
\* loop has got and not yet got itself; a captured frame overwrites whatever the slot
\* holds; get_latest_frame() returns the slot and leaves None, so no frame is returned
\* twice; and the loop receives the frames in capture order
C35_SlotKeepsLatestFrameOnce ==
    [][/\ Increasing(d_received')
       /\ f_frame' # 0 =>
            /\ f_frame' \in 1..f_captured'
            /\ f_frame' # d_frame'
            /\ \A i \in 1..Len(d_received') : d_received'[i] < f_frame'
       /\ (f_pc = "store" /\ f_pc' = "head") =>
            /\ f_frame' = f_local /\ f_local = f_captured
            /\ f_frame < f_frame'
       /\ (d_pc = "head" /\ d_pc' = "got") => (d_frame' = f_frame /\ f_frame' = 0)]_vars

\* the loop got frame 1 and then frame 3: frame 2 was overwritten unconsumed
C35_Witness == d_received = <<1, 3>>

\* the grabber thread left its loop after max_retries failures, nobody stopped it
GrabberGaveUp == f_pc = "done" /\ ~f_stop /\ f_retry >= GRABBER_MAX_RETRIES

\* C39: once the grabber thread has given up after max_retries connection failures in
\* a row, the detector loop eventually terminates
C39_DeadGrabberEndsLoop == GrabberGaveUp ~> d_pc = "done"

\* ------------------------------------------------------------------ quiet specification

\* update() calls that may show faces
MaxNoisyCalls == 4

\* further update() calls, all without a face
MaxQuietTail == 9

\* time between two update() calls once the faces are gone: 3 s, or more than every
\* timeout
QuietSteps == {30, 160}

\* the faces of a frame while people are in view: none, a far one, one too near
NoisyFaces == {<<>>, <<40>>, <<200>>}

\* update() while people may be in view
NoisyUpdate == ZoomUpdateCall(MaxNoisyCalls, NoisyFaces, PlateauSteps, Outcomes)

\* update() with no face in the frame
QuietUpdate == ZoomUpdateCall(MaxNoisyCalls + MaxQuietTail, {<<>>}, QuietSteps, Outcomes)

NextQuiet ==
    \/ NoisyUpdate
    \/ QuietUpdate

\* The detection loop keeps calling update() about once a second.
SpecQuietFair == InitZoom /\ [][NextQuiet]_vars /\ WF_vars(QuietUpdate)

\* C36: when the frames stop showing faces and update() keeps being called, the
\* controller ends in IDLE with the motor stopped and stays there, whichever state it
\* was in; and every update() that enters IDLE leaves plateau_count at 0
C36_NoFacesLeadToIdle ==
    /\ <>[](z_state = "idle" /\ ~z_is_moving /\ z_zoom_plateau_count = 0)
    /\ [][(z_state # "idle" /\ z_state' = "idle") => z_zoom_plateau_count' = 0]_vars

\* an update() without a face ended a return in IDLE and cleared a plateau count
C36_Witness ==
    /\ z_op = "update" /\ z_faces = <<>>
    /\ z_pre.state = "returning" /\ z_pre.zoom_plateau_count > 0
    /\ z_state = "idle" /\ ~z_is_moving /\ z_zoom_plateau_count = 0

\* ------------------------------------------------------------------ motor claims

\* C37: after construction and after every update(), with any PTZ answers: IDLE and
\* TRACKING have the motor marked stopped; a motor marked moving in ZOOMING_IN moves
\* in, in ZOOMING_OUT and RETURNING it moves out; a moving motor has a speed in 1..7;
\* a stopped one has no direction and speed 0
C37_MotorFieldsMatchState ==
    /\ z_state \in {"idle", "tracking"} => ~z_is_moving
    /\ (z_state = "zooming_in" /\ z_is_moving) => z_move_direction = "in"
    /\ (z_state \in {"zooming_out", "returning"} /\ z_is_moving) => z_move_direction = "out"
    /\ z_is_moving => z_current_speed \in 1..7
    /\ ~z_is_moving => (z_move_direction = "" /\ z_current_speed = 0)

\* an update() whose stop request failed and whose zoom-out start succeeded left the
\* manager returning with the motor moving out
C37_Witness ==
    /\ z_op = "update"
    /\ z_pre.state = "zooming_in" /\ z_pre.is_moving
    /\ z_state = "returning" /\ z_is_moving /\ z_move_direction = "out"
    /\ Len(z_cmds) = 2 /\ z_cmds[1].outcome = "error" /\ z_cmds[2].outcome = "ok"

\* C38: in every IDLE state reached by start(), update() and reset() calls
\* plateau_count is below 2, so that a small face that persists can start a zoom-in
C38_IdleNeverSuppressed == z_state = "idle" => z_zoom_plateau_count < 2

\* ------------------------------------------------------------------ matching claims

\* the live tracks the last update() matched or registered
Fresh == {id \in DOMAIN objects : disappeared[id] = 0}

\* the ways to give every detection of the frame to one fresh track, and every fresh
\* track one detection, such that the track holds the detection's box and centroid
Ownerships ==
    {f \in [Fresh -> 1..Len(detections)] :
        /\ \A a \in Fresh : \A b \in Fresh : f[a] = f[b] => a = b
        /\ \A c \in 1..Len(detections) : \E a \in Fresh : f[a] = c
        /\ \A a \in Fresh : /\ bboxes[a] = detections[f[a]]
                            /\ objects[a] = Centroid2(detections[f[a]])}

\* C40: after an update() the matching is one to one and no detection is lost: the
\* returned mapping has one entry per id, each with the box its track now holds; the
\* fresh tracks (disappeared_count 0) are exactly the returned ids and the ids
\* registered by the call; the detections of the frame can be given one each to the
\* fresh tracks, so there are as many fresh tracks as detections; and no live track
\* has disappeared_count above max_disappeared
C40_MatchingOneToOneNothingLost ==
    [][calls' # calls =>
        /\ Cardinality(ResultIds(results')) = Len(results')
        /\ \A i \in 1..Len(results') : /\ results'[i].id \in DOMAIN objects
                                       /\ results'[i].bbox = bboxes'[results'[i].id]
        /\ Fresh' = ResultIds(results') \cup NewIds
        /\ Ownerships' # {}
        /\ Cardinality(Fresh') = Len(detections')
        /\ \A id \in DOMAIN objects' : disappeared'[id] <= max_disappeared]_vars

\* a frame of two detections: one went to an existing track, the other was registered
\* as a new track, and a track that got none was counted as missed
C40_Witness ==
    /\ Len(detections) = 2
    /\ Len(results) = 1
    /\ Cardinality(Fresh) = 2
    /\ \E id \in DOMAIN objects : disappeared[id] = 1
    /\ next_id - 1 \in Fresh \ ResultIds(results)

====
